---- MODULE Spec2Model ----
(***************************************************************************)
(* A model of the aion2-templar-helper core:                               *)
(*   - modules/hardware_input.py  HardwareInput (serial command channel)   *)
(*   - modules/bot.py             Bot (behaviour state machine)            *)
(*   - modules/controller.py      BotController (lifecycle controller)     *)
(*   - main_new.py                toggle_bot (hotkey entry point)          *)
(***************************************************************************)
EXTENDS Integers, Sequences, FiniteSets, TLC

VARIABLES
    hw,     \* HardwareInput: [conn: "none"|"open"|"closed", port: BOOLEAN,
            \*   nfail: I/O faults the environment has injected so far,
            \*   rx: the lines pending in the connection's input buffer,
            \*   drained: the open of this connection ran to its end]
    last,   \* the last HardwareInput call made and what it did (SpecHW)
    \* ---- Bot (modules/bot.py)
    state,            \* Bot.state
    running,          \* Bot.running (soft stop)
    active,           \* Bot.program_active (hard stop)
    stuck_counter,    \* Bot.stuck_counter
    is_first_attack,  \* Bot.is_first_attack
    skill_cooldowns,  \* Bot.skill_cooldowns: skill name -> earliest reuse time
    now,              \* time.time(), in ticks
    pc,               \* where the thread running Bot code is
    stk,              \* where its enclosing calls return to
    loc,              \* locals of the function being executed
    log,              \* what the current cycle (or call) has done so far
    fails,            \* consecutive failed Idle cycles since the last target
                      \*   or anti-stuck maneuver (observer)
    cfg,              \* the config module's values (constant during a run)
    \* ---- BotController (modules/controller.py)
    ctl,              \* [running, program_active, bot_thread: index into
                      \*  workers or 0 for None, workers: the threads created,
                      \*  hk: where the hotkey thread is, in_exit, last: the
                      \*  last call returned and its effect]
    \* ---- StateMachine and LogicController (modules/logic.py)
    sm                \* [vision, running, state, target, skills_cooldown,
                      \*  now, cyc: what the last update() read and did]

hwVars == <<hw, last>>
botVars == <<state, running, active, stuck_counter, is_first_attack,
             skill_cooldowns, now, pc, stk, loc, log, fails, cfg>>
vars == <<hwVars, botVars, ctl, sm>>

(***************************************************************************)
(* HardwareInput (modules/hardware_input.py)                               *)
(***************************************************************************)

\* Keys the callers pass to press_key, as written in the source (lower case).
Keys == {"tab", "s", "space", "w", "1", "2", "mouse1", "mouse2"}

\* str.upper() on the keys above.
Upper(k) ==
    CASE k = "tab"    -> "TAB"
      [] k = "s"      -> "S"
      [] k = "space"  -> "SPACE"
      [] k = "w"      -> "W"
      [] k = "mouse1" -> "MOUSE1"
      [] k = "mouse2" -> "MOUSE2"
      [] OTHER        -> k

\* A command line "KEY_DOWN,<TOKEN>" / "KEY_UP,<TOKEN>" is the pair <<op, token>>.
KeyDown(tok) == <<"KEY_DOWN", tok>>
\* A release command that presses again.
KeyUp_sends_down(tok) == <<"KEY_DOWN", tok>>
KeyUp(tok) == <<"KEY_UP", tok>>

\* HardwareInput.__init__: no connection object, no port detected.  replaced:
\* serial_conn was assigned a new connection while the one it held was open.
HwInit == [conn |-> "none", port |-> FALSE, nfail |-> 0, rx |-> << >>,
           drained |-> FALSE, replaced |-> FALSE]

\* The environment injects at most MaxFaults I/O faults in a run.
MaxFaults == 2
Fault(h) == [h EXCEPT !.nfail = @ + 1]

\* What the environment can make of one init_serial call: no matching device in
\* the port list (only while no port is remembered), serial.Serial() raising,
\* an exception after the open (flushInput / in_waiting / readline / decode),
\* or success.
InitOutcomes(h) ==
    IF h.nfail >= MaxFaults THEN {"ok"}
    ELSE IF h.port THEN {"ok", "err_open", "err_settle"}
    ELSE {"ok", "no_device", "err_open", "err_settle"}

\* serial_conn.flushInput() leaving the pending lines where they are.
flushInput_keeps(rx) == rx
\* serial_conn.flushInput(): the pending input is discarded.
flushInput(rx) == << >>

\* init_serial under the outcome io.  The result: the link after the call, the
\* return value, and the steps taken, in order.  An exception after the
\* settle wait leaves the new connection open.
init_serial(h, io) ==
    CASE io = "no_device"  -> [h |-> Fault(h), ok |-> FALSE, trace |-> << >>]
      [] io = "err_open"   ->
            [h |-> [Fault(h) EXCEPT !.port = TRUE], ok |-> FALSE,
             trace |-> <<"open_raised">>]
      [] io = "err_settle" ->
            [h |-> [Fault(h) EXCEPT !.conn = "open", !.port = TRUE,
                                    !.rx = << >>, !.drained = FALSE,
                                    !.replaced = @ \/ h.conn = "open"],
             ok |-> FALSE, trace |-> <<"open", "settle", "drain_raised">>]
      [] OTHER ->
            [h |-> [h EXCEPT !.conn = "open", !.port = TRUE,
                             !.rx = flushInput(@), !.drained = TRUE,
                             !.replaced = @ \/ h.conn = "open"],
             ok |-> TRUE, trace |-> <<"open", "settle", "flushInput", "drain">>]

\* What the environment can make of the try block of send_serial_command:
\* an exception in flushInput, write, flush, or (when the reply is read) in
\* readline/decode.
IoOutcomes == {"ok", "err_flushInput", "err_write", "err_flush", "err_read"}
\* A line is the sequence of its characters.  Whitespace as str.strip()
\* removes it.
Whitespace == {" ", "\t", "\r", "\n"}
RECURSIVE LStrip(_)
LStrip(l) == IF l # << >> /\ Head(l) \in Whitespace THEN LStrip(Tail(l)) ELSE l
RECURSIVE RStrip(_)
RStrip(l) ==
    IF l # << >> /\ l[Len(l)] \in Whitespace THEN RStrip(SubSeq(l, 1, Len(l) - 1))
    ELSE l
\* str.strip()
Strip(l) == LStrip(RStrip(l))

\* The acknowledgement test with any non-empty reply taken as the token.
AckOk_any_reply(l) == Strip(l) # << >>
\* response = readline().decode('utf-8').strip(); response == 'OK'
AckOk(l) == Strip(l) = <<"O", "K">>

\* The line the peripheral's println("OK") gives.
OkLine == <<"O", "K", "\r", "\n">>
\* What readline() can return when wait_ack is requested: the acknowledgement
\* (with either line end, or padded), other lines, nothing (read timeout), a
\* line cut short by the timeout.
Replies ==
    { OkLine, <<"O", "K", "\n">>, <<" ", "O", "K", "\n">>,
      <<"E", "R", "R", "\n">>, <<"o", "k", "\n">>, <<"O", " ", "K", "\n">>,
      << >>, <<"O">> }

SendEnv(h, wait_ack) ==
    {e \in [init  : IF h.conn = "open" THEN {"ok"} ELSE InitOutcomes(h),
            io    : IF h.nfail >= MaxFaults THEN {"ok"} ELSE IoOutcomes,
            reply : IF wait_ack THEN Replies ELSE {<< >>}] :
        \* choices the call never reads are fixed, so each outcome is listed once
        /\ e.init # "ok" => (e.io = "ok" /\ e.reply = << >>)
        /\ e.io # "ok" => e.reply = << >>
        /\ e.io = "err_read" => wait_ack }

\* The except handler of send_serial_command: close the connection if open.
CloseConn(h) ==
    IF h.conn = "open"
    THEN [h EXCEPT !.conn = "closed", !.rx = << >>, !.drained = FALSE]
    ELSE h
\* The except handler entered: an exception was raised in the try block.
Raised(h) == CloseConn(Fault(h))

\* send_serial_command with a reopen that is tried again after it failed.
send_reopen_twice(h, cmd, wait_ack, e) ==
    LET closed == h.conn # "open"
        r1     == IF closed THEN init_serial(h, e.init) ELSE [h |-> h, ok |-> TRUE]
        r      == IF r1.ok THEN r1 ELSE init_serial(r1.h, e.init)
        opens  == IF closed THEN (IF r1.ok THEN 1 ELSE 2) ELSE 0
    IN  [h |-> [r.h EXCEPT !.conn = "open", !.port = TRUE], written |-> <<cmd>>,
         ok |-> TRUE, opens |-> opens,
         reopen |-> IF closed THEN e.init ELSE "none", exc |-> FALSE, reads |-> 0,
         line |-> << >>, trace |-> << >>]

\* send_serial_command(command, wait_ack) from link state h under the
\* environment's choices e.  The result: the link state after the call, the
\* commands written to the link, the return value, the number of init_serial
\* calls made, the outcome of the reopen ("none" when the link was open) and
\* whether the try block raised.
send_serial_command(h, cmd, wait_ack, e) ==
    LET closed == h.conn # "open"
        r      == IF closed THEN init_serial(h, e.init)
                  ELSE [h |-> h, ok |-> TRUE, trace |-> << >>]
        pending == flushInput(r.h.rx)
        \* the input buffer when readline() is called, and the line it returns
        \* (empty on a read timeout)
        inbuf  == IF e.reply = << >> THEN pending ELSE Append(pending, e.reply)
        line   == IF inbuf = << >> THEN << >> ELSE Head(inbuf)
        rest   == IF inbuf = << >> THEN << >> ELSE Tail(inbuf)
        res(h2, w, ok, exc, rd, tr) ==
            [h |-> h2, written |-> w, ok |-> ok, opens |-> IF closed THEN 1 ELSE 0,
             reopen |-> IF closed THEN e.init ELSE "none", exc |-> exc,
             reads |-> rd, line |-> IF rd = 1 /\ ~exc THEN line ELSE << >>,
             trace |-> r.trace \o tr]
    IN  IF ~r.ok THEN res(r.h, <<>>, FALSE, FALSE, 0, << >>)
        ELSE CASE e.io = "err_flushInput" ->
                    res(Raised(r.h), <<>>, FALSE, TRUE, 0, <<"flushInput_raised">>)
               [] e.io = "err_write" ->
                    res(Raised(r.h), <<>>, FALSE, TRUE, 0,
                        <<"flushInput", "write_raised">>)
               [] e.io = "err_flush" ->
                    res(Raised(r.h), <<cmd>>, FALSE, TRUE, 0,
                        <<"flushInput", "write", "flush_raised">>)
               [] OTHER ->  \* "ok", or "err_read" (after the write)
                    IF ~wait_ack
                    THEN res([r.h EXCEPT !.rx = pending], <<cmd>>, TRUE, FALSE, 0,
                             <<"flushInput", "write", "flush">>)
                    ELSE IF e.io = "err_read"
                         THEN res(Raised(r.h), <<cmd>>, FALSE, TRUE, 1,
                                  <<"flushInput", "write", "flush", "readline_raised">>)
                         ELSE res([r.h EXCEPT !.rx = rest], <<cmd>>, AckOk(line),
                                  FALSE, 1,
                                  <<"flushInput", "write", "flush", "readline">>)

\* Every result one send_serial_command call can have from link state h.
SendResults(h, cmd, wait_ack) ==
    {send_serial_command(h, cmd, wait_ack, e) : e \in SendEnv(h, wait_ack)}

\* A press-and-release pair that sends the release whatever the press returned.
DownUp_no_abort(h, tok) ==
    UNION { {[h |-> s2.h, written |-> s1.written \o s2.written, ok |-> s1.ok /\ s2.ok]
             : s2 \in SendResults(s1.h, KeyUp(tok), FALSE)}
          : s1 \in SendResults(h, KeyDown(tok), FALSE) }

\* One press-and-release pair as click_mouse and press_key make it: the second
\* send is made only if the first returned True.
DownUp(h, tok) ==
    UNION { IF ~s1.ok
            THEN {[h |-> s1.h, written |-> s1.written, ok |-> FALSE]}
            ELSE {[h |-> s2.h, written |-> s1.written \o s2.written, ok |-> s2.ok]
                  : s2 \in SendResults(s1.h, KeyUp(tok), FALSE)}
          : s1 \in SendResults(h, KeyDown(tok), FALSE) }

\* click_mouse(button, clicks, running): the loop over clicks.
RECURSIVE ClickLoop(_, _, _, _, _)
ClickLoop(h, code, n, run, w) ==
    IF n = 0 THEN {[h |-> h, written |-> w, ok |-> TRUE]}
    ELSE IF ~run THEN {[h |-> h, written |-> w, ok |-> FALSE]}
    ELSE UNION { IF ~r.ok THEN {[h |-> r.h, written |-> w \o r.written, ok |-> FALSE]}
                 ELSE ClickLoop(r.h, code, n - 1, run, w \o r.written)
               : r \in DownUp(h, code) }

click_mouse(h, button, clicks, run) ==
    IF button = "left" THEN ClickLoop(h, "MOUSE1", clicks, run, <<>>)
    ELSE IF button = "right" THEN ClickLoop(h, "MOUSE2", clicks, run, <<>>)
    ELSE {[h |-> h, written |-> <<>>, ok |-> FALSE]}

\* Every result one press_key(key, running=running) call can have.
press_key(h, key, run) ==
    IF key = "mouse1" THEN click_mouse(h, "left", 1, run)
    ELSE IF key = "mouse2" THEN click_mouse(h, "right", 1, run)
    ELSE DownUp(h, Upper(key))

\* int(): truncation toward zero of n / d, d > 0.
Trunc(n, d) == IF n >= 0 THEN n \div d ELSE 0 - ((0 - n) \div d)

\* The De Casteljau reduction of generate_bezier_curve at t = k / steps, on
\* one coordinate: each level replaces the points by (1 - t) * p[i] + t *
\* p[i+1].  The coordinates are kept as integers, each level multiplying
\* their scale by steps.
RECURSIVE DeCasteljau(_, _, _)
DeCasteljau(pts, k, n) ==
    IF Len(pts) = 1 THEN pts[1]
    ELSE DeCasteljau([i \in 1..(Len(pts) - 1) |->
                         (n - k) * pts[i] + k * pts[i + 1]], k, n)

\* send_mouse_input calls generate_bezier_curve(start, end, control_points=2,
\* steps=20).
steps == 20
\* random.randint(-5, 5), the offset of a control point.
CpOffsets == {0 - 5, 0, 5}

\* One coordinate of generate_bezier_curve((0, 0), end, 2, steps): d is the
\* coordinate of end, r1 and r2 the random offsets of the two control
\* points, which lie at d / 3 + r1 and 2 * d / 3 + r2 (scale 3).  The
\* result has the points for t = 0 .. last_t / steps.
CurveAxis(d, r1, r2, last_t) ==
    [t \in 1..(last_t + 1) |->
        Trunc(DeCasteljau(<<0, d + 3 * r1, 2 * d + 3 * r2, 3 * d>>, t - 1, steps),
              3 * steps * steps * steps)]
generate_bezier_curve_open_end(dx, dy, c) ==
    LET xs == CurveAxis(dx, c[1], c[3], steps - 1)
        ys == CurveAxis(dy, c[2], c[4], steps - 1)
    IN  [i \in 1..Len(xs) |-> <<xs[i], ys[i]>>]
generate_bezier_curve(dx, dy, c) ==
    LET xs == CurveAxis(dx, c[1], c[3], steps)
        ys == CurveAxis(dy, c[2], c[4], steps)
    IN  [i \in 1..Len(xs) |-> <<xs[i], ys[i]>>]

MouseMove(mx, my) == <<"MOUSE_MOVE", <<mx, my>>>>

\* The loop of send_mouse_input over curve_points[i], i = 1 .. len - 1 (here
\* i + 1): every result it can have from link state h, w being the commands
\* written and sent the values the sends returned so far.
RECURSIVE MouseLoop(_, _, _, _, _, _)
MouseLoop(h, pts, i, run, w, sent) ==
    IF i > Len(pts) THEN {[h |-> h, written |-> w, sends |-> sent, ok |-> TRUE]}
    ELSE IF ~run THEN {[h |-> h, written |-> w, sends |-> sent, ok |-> FALSE]}
    ELSE LET cmd == MouseMove(pts[i][1] - pts[i - 1][1],
                              pts[i][2] - pts[i - 1][2])
         IN  UNION { IF ~r.ok
                     THEN {[h |-> r.h, written |-> w \o r.written,
                            sends |-> Append(sent, FALSE), ok |-> FALSE]}
                     ELSE MouseLoop(r.h, pts, i + 1, run, w \o r.written,
                                    Append(sent, TRUE))
                   : r \in SendResults(h, cmd, FALSE) }

\* send_mouse_input(dx, dy, running) with control point offsets c
\* (<<x1, y1, x2, y2>>).
send_mouse_input(h, dx, dy, run, c) ==
    MouseLoop(h, generate_bezier_curve(dx, dy, c), 2, run, << >>, << >>)

\* HardwareInput.close()
hw_close(h) == CloseConn(h)

\* No HardwareInput call has been made by the call-by-call driver.
NoCall == [op |-> "none"]


(***************************************************************************)
(* Vision (modules/vision.py)                                              *)
(***************************************************************************)
Max(a, b) == IF a >= b THEN a ELSE b
Min(a, b) == IF a <= b THEN a ELSE b

\* What one look at the target bar gives: a red pixel at a check point, none,
\* or a failure (grab_screenshot returning None, or an exception).
TargetReads == {"red", "none", "error"}

\* A check_has_target that reports no target when the read fails.
check_has_target_fail_closed(read) == read = "red"
\* Vision.check_has_target(): True when the read fails.
check_has_target(read) == IF read = "error" THEN TRUE ELSE read = "red"

\* What one look at the health bar gives: the first check point, from 90% down
\* to 10%, that is red, as its tenth (0 when none is); or -1 for a failure.
HealthReads == {-1, 3, 4, 9}

\* Vision.check_health(): 0 when the read fails, else the percentage of the
\* check point, kept within 0..100.
check_health(read) == IF read < 0 THEN 0 ELSE Max(0, Min(100, read * 10))

(***************************************************************************)
(* Bot (modules/bot.py)                                                    *)
(***************************************************************************)

\* Bot.__init__
MAX_STUCK_COUNT == 10
\* use_defense_skills: max_skills_per_check
max_skills_per_check == 2
\* manage_hate: max_hate_skills
max_hate_skills == 1
\* estimate_target_count() returns 1
estimate_target_count == 1

\* Values of the config module that bot.py reads (the module itself is a
\* deployment input).
SELECTION_MAX_ATTEMPTS == 2
KEY_SELECT_TARGET == "tab"
KEY_AUTO_ATTACK == "1"
VIOLENT_STRIKE_KEY == "2"

DefenseSkills == {"shield", "heal", "dual_armor"}
\* The skills after whose use use_defense_skills leaves its loop.
MainDefense == {"dual_armor", "god_armor", "nazeal_shield"}
Thresholds == {30, 50}

\* cfg.starter: KEY_STARTER ("" when unset); cfg.moving:
\* WEAVE_CONFIG['moving_weave_enabled']; cfg.prio: DEFENSE_SKILL_PRIORITIES;
\* cfg.dkeys: DEFENSE_SKILLS; cfg.cds: SKILL_COOLDOWNS; cfg.hkeys: HATE_SKILLS;
\* cfg.hprio: HATE_SKILL_PRIORITIES.
DefaultConfig ==
    [starter |-> "3", moving |-> TRUE,
     prio    |-> << <<"shield", 30>>, <<"heal", 50>> >>,
     dkeys   |-> [k \in {"shield", "heal"} |-> IF k = "shield" THEN "4" ELSE "5"],
     cds     |-> << >>,
     hkeys   |-> [k \in {"provoke"} |-> "6"],
     hprio   |-> << "provoke_roar", "provoke", "taunt" >>]

NoLocals == [attempt |-> 0, di |-> 1, health |-> 0, used |-> <<>>, skills_used |-> 0]

\* The Bot object right after __init__, no thread inside its code.
BotFresh ==
    /\ state = "idle"
    /\ running = FALSE
    /\ active = TRUE
    /\ stuck_counter = 0
    /\ is_first_attack = TRUE
    /\ skill_cooldowns = << >>
    /\ now = 0
    /\ pc = "off"
    /\ stk = << >>
    /\ loc = NoLocals
    /\ log = << >>
    /\ fails = 0

\* ---- smart_sleep: the duration waited for, in milliseconds ---------------

\* actual_duration = max(0.01, ...): the 10 ms floor.
MIN_SLEEP_MS == 10

\* jitter = max(-jitter_range, min(jitter_range, jitter))
clamp_jitter(jitter_range, g) == Max(0 - jitter_range, Min(jitter_range, g))

\* The duration with the gaussian draw used as it comes.
actual_duration_no_clamp(duration, jitter_range, g) ==
    Max(MIN_SLEEP_MS, duration + g)
\* actual_duration of smart_sleep(duration, jitter_range) for the gaussian
\* draw g.
actual_duration(duration, jitter_range, g) ==
    Max(MIN_SLEEP_MS, duration + clamp_jitter(jitter_range, g))

\* ---- pure decisions of the loop -----------------------------------------

\* The state after the Idle branch's target search (bot.py 413-435).
IdleNext_always_combat(found, st) == "combat"
IdleNext(found, st) == IF found THEN "combat" ELSE st

\* The state after the Combat branch's target check (bot.py 440-443).
CombatNext_always_idle(found, st) == "idle"
CombatNext(found, st) == IF found THEN st ELSE "idle"

\* The anti-stuck test (bot.py 423).
IsStuck_late(c) == c > MAX_STUCK_COUNT
IsStuck(c) == c >= MAX_STUCK_COUNT

\* The keys of the anti-stuck maneuver, in order (bot.py 426-429).
UnstuckKeys == <<"s", "s", "space">>

SeqRange(q) == {q[i] : i \in 1..Len(q)}

\* use_defense_skills, one entry of the priority list (bot.py 219-235):
\* whether the entry's skill is pressed.
Configured_empty_key(c, skill) == skill \in DOMAIN c.dkeys
Configured(c, skill) == skill \in DOMAIN c.dkeys /\ c.dkeys[skill] # ""
OnCooldown_never(cds, skill, t) == FALSE
OnCooldown(cds, skill, t) == skill \in DOMAIN cds /\ t < cds[skill]
DefensePress_no_used_check(c, skill, threshold, health, used, cds, t) ==
    /\ Configured(c, skill)
    /\ health <= threshold
    /\ ~OnCooldown(cds, skill, t)
DefensePress(c, skill, threshold, health, used, cds, t) ==
    /\ Configured(c, skill)
    /\ health <= threshold
    /\ ~OnCooldown(cds, skill, t)
    /\ c.dkeys[skill] \notin SeqRange(used)

\* The entry is passed over because its skill is on cooldown (bot.py 228-231).
CooldownSkip(c, skill, threshold, health, cds, t) ==
    Configured(c, skill) /\ health <= threshold /\ OnCooldown(cds, skill, t)

\* skill_cooldowns after skill was used at time t (bot.py 245-247).
RecordCooldown(c, cds, skill, t) ==
    IF skill \in DOMAIN c.cds
    THEN [k \in DOMAIN cds \cup {skill} |->
            IF k = skill THEN t + c.cds[skill] ELSE cds[k]]
    ELSE cds

\* ---- bookkeeping of the thread's position -------------------------------
Goto(l)   == pc' = l /\ UNCHANGED stk
Call(l, ret) == pc' = l /\ stk' = <<ret>> \o stk
Return    == pc' = Head(stk) /\ stk' = Tail(stk)
Ev(kind, what) == <<kind, what>>
B(b) == IF b THEN "yes" ELSE "no"
\* What a has-target read leaves in the log.
Seen(read) ==
    (IF read = "error" THEN <<Ev("read_failed", "has_target")>> ELSE << >>)
    \o <<Ev("has_target", B(check_has_target(read)))>>

\* ---- Bot.start / Bot.stop / Bot.exit -----------------------------------

\* A start() that also sets program_active again.
BotStart_reactivates ==
    /\ pc = "off"
    /\ running' = TRUE
    /\ active' = TRUE
    /\ pc' = "init"
    /\ log' = << >>
    /\ UNCHANGED <<hw, state, stuck_counter, is_first_attack, skill_cooldowns,
                   now, stk, loc, cfg, last, fails, ctl, sm>>

\* Bot.start(): running = True, then bot_loop() is entered and calls
\* init_serial, which takes seconds (the port is opened and left to settle).
BotStart ==
    /\ pc = "off"
    /\ running' = TRUE
    /\ pc' = "init"
    /\ log' = << >>
    /\ UNCHANGED <<hw, state, active, stuck_counter, is_first_attack,
                   skill_cooldowns, now, stk, loc, cfg, last, fails, ctl, sm>>

\* bot_loop: init_serial returns; the loop is entered, or bot_loop returns
\* at once when it failed.
BotInit ==
    /\ pc = "init"
    /\ \E io \in InitOutcomes(hw) :
          LET r == init_serial(hw, io) IN
          /\ hw' = r.h
          /\ pc' = IF r.ok THEN "loop" ELSE "off"
    /\ UNCHANGED <<sm, ctl, last, state, running, active, stuck_counter,
                   is_first_attack, skill_cooldowns, now, stk, loc, log, cfg,
                   fails>>

\* Bot.stop(), from the hotkey thread.
BotStop ==
    /\ running
    /\ running' = FALSE
    /\ log' = log \o <<Ev("stop", "request")>>
    /\ UNCHANGED <<sm, ctl, hw, last, state, active, stuck_counter, is_first_attack,
                   skill_cooldowns, now, pc, stk, loc, cfg, fails>>

\* Bot.exit(), from the hotkey thread: both flags cleared, then
\* hardware.close(), whatever bot_loop is doing.  (A second exit() repeats
\* the same assignments and close; one is modelled.)
BotExit ==
    /\ active
    /\ running' = FALSE
    /\ active' = FALSE
    /\ hw' = hw_close(hw)
    /\ log' = log \o <<Ev("exit", "close")>>
    /\ UNCHANGED <<sm, ctl, last, state, stuck_counter, is_first_attack,
                   skill_cooldowns, now, pc, stk, loc, cfg, fails>>

\* Time passes (while a skill's earliest-reuse time is still ahead).
MaxTime == 3
Tick ==
    /\ now < MaxTime
    /\ \E k \in DOMAIN skill_cooldowns : now < skill_cooldowns[k]
    /\ now' = now + 1
    /\ UNCHANGED <<sm, ctl, hw, last, state, running, active, stuck_counter, is_first_attack,
                   skill_cooldowns, pc, stk, loc, log, cfg, fails>>

\* ---- bot_loop: loop head and exits --------------------------------------

\* The finally clause of bot_loop (hardware.close(), vision.close()).
LoopFinally ==
    /\ hw' = hw_close(hw)
    /\ pc' = "off"
    /\ stk' = << >>

\* while self.running: the flag is false.
LoopExit ==
    /\ pc = "loop"
    /\ ~running
    /\ LoopFinally
    /\ UNCHANGED <<sm, ctl, last, state, running, active, stuck_counter, is_first_attack,
                   skill_cooldowns, now, loc, log, cfg, fails>>

\* The end of a cycle: smart_sleep(LOOP_DELAY), break when the flag is false.
CycleSleep ==
    /\ pc = "cycle_sleep"
    /\ IF running THEN Goto("loop") /\ hw' = hw ELSE LoopFinally
    /\ UNCHANGED <<sm, ctl, last, state, running, active, stuck_counter, is_first_attack,
                   skill_cooldowns, now, loc, log, cfg, fails>>

\* ---- bot_loop: STATE_IDLE ----------------------------------------------

\* select_target, one attempt up to its first wait: press the select key.
SelectPress(lg, att) ==
    \E r \in press_key(hw, KEY_SELECT_TARGET, running) :
        /\ hw' = r.h
        /\ log' = lg \o <<Ev("press", KEY_SELECT_TARGET)>> \o r.written
                     \o <<Ev("wait", "selection_delay")>>
        /\ loc' = [loc EXCEPT !.attempt = att]
        /\ Goto("sel_wait1")

\* A failed select_target that is counted without the threshold test.
SelectFailed_no_threshold ==
    /\ stuck_counter' = stuck_counter + 1
    /\ Goto("cycle_sleep")
    /\ loc' = loc
    /\ log' = log \o <<Ev("select_target", "False"), Ev("wait", "loop_delay")>>
    /\ state' = IdleNext(FALSE, state)
    /\ fails' = fails
    /\ UNCHANGED <<hw, is_first_attack>>

\* select_target returned False: count the failure, start the maneuver when
\* the threshold is reached.
SelectFailed ==
    /\ stuck_counter' = stuck_counter + 1
    /\ IF IsStuck(stuck_counter + 1)
       THEN /\ Goto("unstuck")
            /\ loc' = [loc EXCEPT !.di = 1]
            /\ log' = log \o <<Ev("select_target", "False"), Ev("antistuck", "begin")>>
       ELSE /\ Goto("cycle_sleep")
            /\ loc' = loc
            /\ log' = log \o <<Ev("select_target", "False"), Ev("wait", "loop_delay")>>
    /\ state' = IdleNext(FALSE, state)
    /\ fails' = fails + 1
    /\ UNCHANGED <<hw, is_first_attack>>

\* A cycle that begins in Idle.
IdleCycle ==
    /\ pc = "loop" /\ running /\ state = "idle"
    /\ \E rd \in TargetReads :
        LET t == check_has_target(rd)
            lg == <<Ev("cycle", "idle")>> \o Seen(rd) IN
        IF t
        THEN /\ state' = IdleNext(TRUE, state)
             /\ stuck_counter' = 0
             /\ is_first_attack' = TRUE
             /\ log' = lg \o <<Ev("wait", "loop_delay")>>
             /\ fails' = 0
             /\ Goto("cycle_sleep")
             /\ UNCHANGED <<hw, loc>>
        ELSE /\ SelectPress(lg, 0)
             /\ UNCHANGED <<state, stuck_counter, is_first_attack, fails>>
    /\ UNCHANGED <<sm, ctl, last, running, active, skill_cooldowns, now, cfg>>

\* select_target after its first wait: give up when stopped, else ask the sensor.
SelWait1 ==
    /\ pc = "sel_wait1"
    /\ IF ~running
       THEN SelectFailed
       ELSE \E rd \in TargetReads :
             IF check_has_target(rd)
             THEN /\ state' = IdleNext(TRUE, state)
                  /\ stuck_counter' = 0
                  /\ is_first_attack' = TRUE
                  /\ log' = log \o Seen(rd) \o <<Ev("select_target", "True"),
                                                  Ev("wait", "loop_delay")>>
                  /\ fails' = 0
                  /\ Goto("cycle_sleep")
                  /\ UNCHANGED <<hw, loc>>
             ELSE /\ log' = log \o Seen(rd) \o <<Ev("wait", "retry")>>
                  /\ Goto("sel_wait2")
                  /\ UNCHANGED <<hw, loc, state, stuck_counter, is_first_attack,
                                 fails>>
    /\ UNCHANGED <<sm, ctl, last, running, active, skill_cooldowns, now, cfg>>

\* A select_target that makes one attempt more than the cap.
SelWait2_one_more ==
    /\ pc = "sel_wait2"
    /\ IF running /\ loc.attempt + 1 <= SELECTION_MAX_ATTEMPTS
       THEN /\ SelectPress(log, loc.attempt + 1)
            /\ UNCHANGED <<state, stuck_counter, is_first_attack, fails>>
       ELSE SelectFailed
    /\ UNCHANGED <<sm, ctl, last, running, active, skill_cooldowns, now, cfg>>

\* select_target after its second wait: next attempt, or the cap is exhausted.
SelWait2 ==
    /\ pc = "sel_wait2"
    /\ IF running /\ loc.attempt + 1 < SELECTION_MAX_ATTEMPTS
       THEN /\ SelectPress(log, loc.attempt + 1)
            /\ UNCHANGED <<state, stuck_counter, is_first_attack, fails>>
       ELSE SelectFailed
    /\ UNCHANGED <<sm, ctl, last, running, active, skill_cooldowns, now, cfg>>

\* The anti-stuck maneuver, one key press per step; the counter is reset
\* after the last.
Unstuck ==
    /\ pc = "unstuck"
    /\ \E r \in press_key(hw, UnstuckKeys[loc.di], running) :
        /\ hw' = r.h
        /\ IF loc.di < Len(UnstuckKeys)
           THEN /\ log' = log \o <<Ev("press", UnstuckKeys[loc.di])>> \o r.written
                /\ loc' = [loc EXCEPT !.di = @ + 1]
                /\ Goto("unstuck")
                /\ UNCHANGED <<stuck_counter, fails>>
           ELSE /\ log' = log \o <<Ev("press", UnstuckKeys[loc.di])>> \o r.written
                           \o <<Ev("antistuck", "end"), Ev("wait", "loop_delay")>>
                /\ loc' = [loc EXCEPT !.di = 1]
                /\ stuck_counter' = 0
                /\ fails' = 0
                /\ Goto("cycle_sleep")
    /\ UNCHANGED <<sm, ctl, last, state, running, active, is_first_attack, skill_cooldowns,
                   now, cfg>>

\* ---- use_defense_skills -------------------------------------------------

\* After activate_game_window() and the 50 ms sleep: read the health, clear
\* the locals.
DefBegin ==
    /\ pc = "def_begin"
    /\ \E rd \in HealthReads :
          /\ loc' = [NoLocals EXCEPT !.health = check_health(rd)]
          /\ log' = log \o <<Ev("call", "use_defense_skills")>>
                        \o (IF rd < 0 THEN <<Ev("read_failed", "health")>> ELSE << >>)
    /\ Goto("def_iter")
    /\ UNCHANGED <<sm, ctl, hw, last, state, running, active, stuck_counter, is_first_attack,
                   skill_cooldowns, now, cfg, fails>>

\* One entry of DEFENSE_SKILL_PRIORITIES, up to the wait after a key press.
DefIter ==
    /\ pc = "def_iter"
    /\ IF ~running \/ loc.di > Len(cfg.prio) \/ loc.skills_used >= max_skills_per_check
       THEN /\ Return
            /\ log' = log \o <<Ev("return", "use_defense_skills")>>
            /\ UNCHANGED <<hw, loc, skill_cooldowns>>
       ELSE LET skill == cfg.prio[loc.di][1]
                th    == cfg.prio[loc.di][2]
            IN  IF DefensePress(cfg, skill, th, loc.health, loc.used,
                                skill_cooldowns, now)
                THEN \E r \in press_key(hw, cfg.dkeys[skill], running) :
                       /\ hw' = r.h
                       /\ log' = log \o <<Ev("defense", skill),
                                          Ev("press", cfg.dkeys[skill])>>
                                     \o r.written \o <<Ev("wait", "skill_delay")>>
                       /\ loc' = [loc EXCEPT !.used = Append(@, cfg.dkeys[skill]),
                                             !.skills_used = @ + 1]
                       /\ skill_cooldowns' =
                              RecordCooldown(cfg, skill_cooldowns, skill, now)
                       /\ Goto("def_wait")
                ELSE /\ loc' = [loc EXCEPT !.di = @ + 1]
                     /\ log' = IF CooldownSkip(cfg, skill, th, loc.health,
                                               skill_cooldowns, now)
                               THEN log \o <<Ev("cooldown", skill)>> ELSE log
                     /\ Goto("def_iter")
                     /\ UNCHANGED <<hw, skill_cooldowns>>
    /\ UNCHANGED <<sm, ctl, last, state, running, active, stuck_counter, is_first_attack,
                   now, cfg, fails>>

\* After smart_sleep(SKILL_DELAY): return when stopped, leave the loop after a
\* main defensive skill, else go on with the next entry.
DefWait ==
    /\ pc = "def_wait"
    /\ IF ~running \/ cfg.prio[loc.di][1] \in MainDefense
       THEN /\ Return
            /\ log' = log \o <<Ev("return", "use_defense_skills")>>
            /\ loc' = loc
       ELSE /\ Goto("def_iter")
            /\ loc' = [loc EXCEPT !.di = @ + 1]
            /\ log' = log
    /\ UNCHANGED <<sm, ctl, hw, last, state, running, active, stuck_counter, is_first_attack,
                   skill_cooldowns, now, cfg, fails>>

\* ---- moving_weave -------------------------------------------------------

\* An exception leaves bot_loop: its except clause logs it, its finally
\* clause closes the link; running is left as it is.
Propagate(h) ==
    /\ hw' = hw_close(h)
    /\ pc' = "off"
    /\ stk' = << >>

\* send KEY_UP,W and return from moving_weave.
ReleaseW(h, lg) ==
    \E r \in SendResults(h, KeyUp("W"), FALSE) :
        /\ hw' = r.h
        /\ log' = lg \o r.written \o <<Ev("return", "moving_weave")>>
        /\ Return

\* The finally clause runs, then the exception goes on to bot_loop.
ReleaseWAndRaise(h, lg) ==
    \E r \in SendResults(h, KeyUp("W"), FALSE) :
        /\ log' = lg \o <<Ev("raise", "moving_weave")>> \o r.written
                     \o <<Ev("return", "moving_weave")>>
        /\ Propagate(r.h)

\* moving_weave up to its first wait: send KEY_DOWN,W.
MWStart ==
    /\ pc = "mw_start"
    /\ \E r \in SendResults(hw, KeyDown("W"), FALSE) :
        /\ hw' = r.h
        /\ IF r.ok
           THEN /\ log' = log \o <<Ev("call", "moving_weave")>> \o r.written
                               \o <<Ev("wait", "mw_hold")>>
                /\ Goto("mw_wait0")
           ELSE /\ log' = log \o <<Ev("call", "moving_weave")>> \o r.written
                               \o <<Ev("return", "moving_weave")>>
                /\ Return
    /\ UNCHANGED <<sm, ctl, last, state, running, active, stuck_counter, is_first_attack,
                   skill_cooldowns, now, loc, cfg, fails>>

\* After smart_sleep(0.05): release and return when stopped; else enter the
\* try block and press the attack key.
MWWait0 ==
    /\ pc = "mw_wait0"
    /\ IF ~running
       THEN ReleaseW(hw, log)
       ELSE \E exc \in BOOLEAN :
              IF exc
              THEN ReleaseWAndRaise(hw, log)
              ELSE \E p \in press_key(hw, KEY_AUTO_ATTACK, running) :
                     /\ hw' = p.h
                     /\ log' = log \o <<Ev("press", KEY_AUTO_ATTACK)>> \o p.written
                                   \o <<Ev("wait", "windup")>>
                     /\ Goto("mw_windup")
    /\ UNCHANGED <<sm, ctl, last, state, running, active, stuck_counter, is_first_attack,
                   skill_cooldowns, now, loc, cfg, fails>>

\* After the windup wait: press the skill key.
MWWindup ==
    /\ pc = "mw_windup"
    /\ IF ~running
       THEN ReleaseW(hw, log)
       ELSE \E exc \in BOOLEAN :
              IF exc
              THEN ReleaseWAndRaise(hw, log)
              ELSE \E p \in press_key(hw, VIOLENT_STRIKE_KEY, running) :
                     LET lg == log \o <<Ev("press", VIOLENT_STRIKE_KEY)>> \o p.written IN
                     IF p.ok
                     THEN /\ hw' = p.h
                          /\ log' = lg \o <<Ev("wait", "after_skill")>>
                          /\ Goto("mw_after")
                     ELSE ReleaseW(p.h, lg)
    /\ UNCHANGED <<sm, ctl, last, state, running, active, stuck_counter, is_first_attack,
                   skill_cooldowns, now, loc, cfg, fails>>

\* After the post-skill wait: the finally clause, then return.
MWAfter ==
    /\ pc = "mw_after"
    /\ ReleaseW(hw, log)
    /\ UNCHANGED <<sm, ctl, last, state, running, active, stuck_counter, is_first_attack,
                   skill_cooldowns, now, loc, cfg, fails>>

\* ---- weave_skill --------------------------------------------------------

WSStart ==
    /\ pc = "ws_start"
    /\ \E p \in press_key(hw, KEY_AUTO_ATTACK, running) :
        /\ hw' = p.h
        /\ log' = log \o <<Ev("call", "weave_skill"), Ev("press", KEY_AUTO_ATTACK)>>
                      \o p.written \o <<Ev("sent", B(p.ok)), Ev("wait", "windup")>>
        /\ Goto("ws_windup")
    /\ UNCHANGED <<sm, ctl, last, state, running, active, stuck_counter, is_first_attack,
                   skill_cooldowns, now, loc, cfg, fails>>

WSWindup ==
    /\ pc = "ws_windup"
    /\ IF ~running
       THEN /\ log' = log \o <<Ev("result", "False"), Ev("return", "weave_skill")>>
            /\ Return
            /\ hw' = hw
       ELSE \E p \in press_key(hw, VIOLENT_STRIKE_KEY, running) :
              LET lg == log \o <<Ev("press", VIOLENT_STRIKE_KEY)>> \o p.written
                            \o <<Ev("sent", B(p.ok))>>
              IN  /\ hw' = p.h
                  /\ IF p.ok
                     THEN /\ log' = lg \o <<Ev("wait", "after_skill")>>
                          /\ Goto("ws_after")
                     ELSE /\ log' = lg \o <<Ev("result", "False"),
                                            Ev("return", "weave_skill")>>
                          /\ Return
    /\ UNCHANGED <<sm, ctl, last, state, running, active, stuck_counter, is_first_attack,
                   skill_cooldowns, now, loc, cfg, fails>>

\* After smart_sleep(after_skill_delay): its result is the flag.
WSAfter ==
    /\ pc = "ws_after"
    /\ log' = log \o <<Ev("result", IF running THEN "True" ELSE "False"),
                        Ev("return", "weave_skill")>>
    /\ Return
    /\ UNCHANGED <<sm, ctl, hw, last, state, running, active, stuck_counter,
                   is_first_attack, skill_cooldowns, now, loc, cfg, fails>>

\* ---- manage_hate --------------------------------------------------------

HateConfigured(c, name) == name \in DOMAIN c.hkeys /\ c.hkeys[name] # ""

\* A use_skill test that lets every skill through.
HateUse_always(name, count) == TRUE
\* The use_skill test of the priority loop (bot.py 161-169).
HateUse(name, count) ==
    /\ ~(name = "provoke_roar" /\ count <= 2)
    /\ ~(name = "provoke" /\ count > 2)

\* The primary hate skill (bot.py 122-141): provoke for few targets,
\* provoke_roar for many, "" when neither applies.
PrimaryHate(c, run, count) ==
    IF run /\ HateConfigured(c, "provoke") /\ count <= 2 THEN "provoke"
    ELSE IF run /\ HateConfigured(c, "provoke_roar") /\ count > 2 THEN "provoke_roar"
    ELSE ""

\* A hate skill pressed without being counted.
HatePress_uncounted(name, next) ==
    \E p \in press_key(hw, cfg.hkeys[name], running) :
        /\ hw' = p.h
        /\ log' = log \o <<Ev("hate", name), Ev("press", cfg.hkeys[name])>>
                      \o p.written \o <<Ev("wait", "hate_delay")>>
        /\ loc' = [loc EXCEPT !.used = Append(@, cfg.hkeys[name])]
        /\ Goto(next)

\* A hate skill of the priority list: press, note the key, count it.
HatePress(name, next) ==
    \E p \in press_key(hw, cfg.hkeys[name], running) :
        /\ hw' = p.h
        /\ log' = log \o <<Ev("hate", name), Ev("press", cfg.hkeys[name])>>
                      \o p.written \o <<Ev("wait", "hate_delay")>>
        /\ loc' = [loc EXCEPT !.used = Append(@, cfg.hkeys[name]),
                              !.skills_used = @ + 1]
        /\ Goto(next)

\* After activate_game_window() and the 50 ms sleep: the target check and
\* the primary hate skill.
HateBegin ==
    /\ pc = "hate_begin"
    /\ \E rd \in TargetReads :
        LET t == check_has_target(rd)
            lg == log \o <<Ev("call", "manage_hate")>> \o Seen(rd)
            first == PrimaryHate(cfg, running, estimate_target_count)
        IN  IF ~t
            THEN /\ log' = lg \o <<Ev("return", "manage_hate")>>
                 /\ Return
                 /\ loc' = NoLocals
                 /\ hw' = hw
            ELSE IF first # ""
            THEN \E p \in press_key(hw, cfg.hkeys[first], running) :
                    /\ hw' = p.h
                    /\ log' = lg \o <<Ev("hate", first), Ev("press", cfg.hkeys[first])>>
                                 \o p.written \o <<Ev("wait", "hate_delay")>>
                    /\ loc' = [NoLocals EXCEPT !.used = <<cfg.hkeys[first]>>,
                                               !.skills_used = 1]
                    /\ Goto("hate_wait1")
            ELSE /\ log' = lg
                 /\ loc' = NoLocals
                 /\ hw' = hw
                 /\ Goto("hate_prio")
    /\ UNCHANGED <<sm, ctl, last, state, running, active, stuck_counter, is_first_attack,
                   skill_cooldowns, now, cfg, fails>>

\* After the wait that follows the primary hate skill.
HateWait1 ==
    /\ pc = "hate_wait1"
    /\ IF ~running
       THEN /\ log' = log \o <<Ev("return", "manage_hate")>>
            /\ Return
       ELSE /\ log' = log
            /\ Goto("hate_prio")
    /\ UNCHANGED <<sm, ctl, hw, last, state, running, active, stuck_counter, is_first_attack,
                   skill_cooldowns, now, loc, cfg, fails>>

\* The loop over HATE_SKILL_PRIORITIES, one entry per step.
HatePrio ==
    /\ pc = "hate_prio"
    /\ IF running /\ loc.skills_used < max_hate_skills /\ loc.di <= Len(cfg.hprio)
       THEN LET name == cfg.hprio[loc.di] IN
            IF /\ HateConfigured(cfg, name)
               /\ cfg.hkeys[name] \notin SeqRange(loc.used)
               /\ HateUse(name, estimate_target_count)
            THEN HatePress(name, "hate_wait2")
            ELSE /\ loc' = [loc EXCEPT !.di = @ + 1]
                 /\ Goto("hate_prio")
                 /\ UNCHANGED <<hw, log>>
       ELSE /\ Goto("hate_default")
            /\ UNCHANGED <<hw, log, loc>>
    /\ UNCHANGED <<sm, ctl, last, state, running, active, stuck_counter, is_first_attack,
                   skill_cooldowns, now, cfg, fails>>

\* After the wait that follows a hate skill of the priority list.
HateWait2 ==
    /\ pc = "hate_wait2"
    /\ IF ~running
       THEN /\ log' = log \o <<Ev("return", "manage_hate")>>
            /\ Return
       ELSE /\ log' = log
            /\ Goto("hate_default")
    /\ UNCHANGED <<sm, ctl, hw, last, state, running, active, stuck_counter, is_first_attack,
                   skill_cooldowns, now, loc, cfg, fails>>

\* No hate skill was used: the default attack, a left click.
HateDefault ==
    /\ pc = "hate_default"
    /\ IF running /\ loc.skills_used = 0
       THEN \E r \in click_mouse(hw, "left", 1, running) :
              /\ hw' = r.h
              /\ log' = log \o <<Ev("click", "left")>> \o r.written
                            \o <<Ev("wait", "default_attack")>>
              /\ Goto("hate_wait3")
       ELSE /\ log' = log \o <<Ev("return", "manage_hate")>>
            /\ Return
            /\ hw' = hw
    /\ UNCHANGED <<sm, ctl, last, state, running, active, stuck_counter, is_first_attack,
                   skill_cooldowns, now, loc, cfg, fails>>

HateWait3 ==
    /\ pc = "hate_wait3"
    /\ log' = log \o <<Ev("return", "manage_hate")>>
    /\ Return
    /\ UNCHANGED <<sm, ctl, hw, last, state, running, active, stuck_counter, is_first_attack,
                   skill_cooldowns, now, loc, cfg, fails>>

\* ---- bot_loop: STATE_COMBAT --------------------------------------------

\* A cycle that begins in Combat, up to the opener's wait or the call of
\* use_defense_skills.
CombatCycle ==
    /\ pc = "loop" /\ running /\ state = "combat"
    /\ fails' = 0
    /\ \E rd \in TargetReads :
        LET t == check_has_target(rd)
            lg == <<Ev("cycle", "combat")>> \o Seen(rd) IN
        /\ state' = CombatNext(t, state)
        /\ IF ~t
           THEN /\ stuck_counter' = 0
                /\ log' = lg \o <<Ev("wait", "loop_delay")>>
                /\ Goto("cycle_sleep")
                /\ UNCHANGED <<hw, is_first_attack>>
           ELSE IF is_first_attack /\ cfg.starter # ""
           THEN \E p \in press_key(hw, cfg.starter, running) :
                   /\ hw' = p.h
                   /\ log' = lg \o <<Ev("starter", cfg.starter), Ev("press", cfg.starter)>>
                                \o p.written \o <<Ev("wait", "delay_starter")>>
                   /\ Goto("starter_wait")
                   /\ UNCHANGED <<stuck_counter, is_first_attack>>
           ELSE /\ is_first_attack' = FALSE
                /\ log' = lg
                /\ Call("def_begin", "weave")
                /\ UNCHANGED <<hw, stuck_counter>>
    /\ UNCHANGED <<sm, ctl, last, running, active, skill_cooldowns, now, loc, cfg>>

\* The opener's wait over, with the first-attack flag left set.
StarterWait_keeps_flag ==
    /\ pc = "starter_wait"
    /\ Call("def_begin", "weave")
    /\ UNCHANGED <<sm, ctl, hw, last, state, running, active, stuck_counter,
                   is_first_attack, skill_cooldowns, now, loc, log, cfg, fails>>

\* After smart_sleep(DELAY_STARTER), whose result is not looked at.
StarterWait ==
    /\ pc = "starter_wait"
    /\ is_first_attack' = FALSE
    /\ Call("def_begin", "weave")
    /\ UNCHANGED <<sm, ctl, hw, last, state, running, active, stuck_counter,
                   skill_cooldowns, now, loc, log, cfg, fails>>

\* manage_hate called before the weave.
Weave_hate_first ==
    /\ pc = "weave"
    /\ pc' = "hate_begin"
    /\ stk' = <<IF cfg.moving THEN "mw_start" ELSE "ws_start", "cycle_sleep">> \o stk
    /\ UNCHANGED <<sm, ctl, hw, last, state, running, active, stuck_counter, is_first_attack,
                   skill_cooldowns, now, loc, log, cfg, fails>>

\* After use_defense_skills: detect_status(), then the weave, then
\* manage_hate, then the cycle's wait.
Weave ==
    /\ pc = "weave"
    /\ pc' = IF cfg.moving THEN "mw_start" ELSE "ws_start"
    /\ stk' = <<"hate_begin", "cycle_sleep">> \o stk
    /\ UNCHANGED <<sm, ctl, hw, last, state, running, active, stuck_counter, is_first_attack,
                   skill_cooldowns, now, loc, log, cfg, fails>>

(***************************************************************************)
(* StateMachine and LogicController (modules/logic.py)                     *)
(***************************************************************************)

\* HP and MP in tenths of the full bar; time in half seconds.
hp_threshold == 3
mp_threshold == 2
\* What get_self_hp and get_self_mp can report for a frame.  The functions in
\* the source return random.uniform(0.6, 0.9) and random.uniform(0.5, 0.8) in
\* place of the bar recognition they stand for; the readings here cover the
\* whole bar around each threshold the code compares against.
HpReads == {2, 3, 9}
MpReads == {1, 2, 8}

\* The object passed as vision: modules.vision.Vision, which has no
\* capture_screen method, or an object that has one.
VisionKinds == {"Vision", "frames"}

\* What one update() read and did: the state it started in, whether it got a
\* frame, what the frame showed (HP, MP, monsters), the input commands it
\* issued, the exception it raised, whether the per-state logic ran.
NoCycle == [start |-> "none", frame |-> FALSE, hp |-> 0, mp |-> 0,
            monsters |-> FALSE, keys |-> << >>, raised |-> "none",
            logic |-> FALSE]

\* StateMachine.__init__ and LogicController.__init__.
SMNew(v) ==
    [vision |-> v, running |-> TRUE, state |-> "idle", target |-> "none",
     skills_cooldown |-> << >>, now |-> 0, cyc |-> NoCycle]
SMFresh == SMNew("Vision")

\* input_controller.press_key(key), and the other input commands, as the
\* cycle's record of what was issued.
SMPress(s, key) == [s EXCEPT !.cyc.keys = Append(@, key)]

change_state_heals_at_once(s, new_state) ==
    IF new_state = "emergency_heal"
    THEN SMPress([s EXCEPT !.state = new_state], "H")
    ELSE [s EXCEPT !.state = new_state]
change_state(s, new_state) == [s EXCEPT !.state = new_state]

\* get_combat_skills_priority, skill_keys and config_skills (cooldowns in
\* half seconds).
combat_skills == <<"skill_1", "skill_2", "skill_3", "attack">>
skill_keys ==
    [skill_1 |-> "1", skill_2 |-> "2", skill_3 |-> "3", attack |-> "F"]
config_skills == [skill_1 |-> 3, skill_2 |-> 4, skill_3 |-> 6, attack |-> 1]
high_damage_cooldown == 10

is_skill_ready(s, skill_name) ==
    IF skill_name \in DOMAIN s.skills_cooldown
    THEN s.now >= s.skills_cooldown[skill_name]
    ELSE TRUE

SetCooldown(s, name, t) ==
    [s EXCEPT !.skills_cooldown =
        [k \in DOMAIN @ \cup {name} |-> IF k = name THEN t ELSE @[k]]]

use_skill(s, skill_name) ==
    SetCooldown(SMPress(s, skill_keys[skill_name]), skill_name,
                s.now + config_skills[skill_name])

\* execute_combat_rotation: the first ready skill of the list, one per cycle.
execute_combat_rotation(s) ==
    LET ready == {i \in 1..Len(combat_skills) :
                     is_skill_ready(s, combat_skills[i])}
    IN  IF ready = {} THEN s
        ELSE use_skill(s, combat_skills[CHOOSE i \in ready :
                                           \A j \in ready : i <= j])

execute_idle_logic(s, frame, tgt) ==
    IF ~frame THEN s
    ELSE IF s.cyc.monsters
         THEN change_state([s EXCEPT !.target = tgt], "approach")
         ELSE change_state(s, "roaming")

\* The target's distance is computed from its screen position, which the
\* machine keeps as selected: "near" is below get_attack_range().
execute_approach_logic(s) ==
    IF s.target = "none" THEN change_state(s, "idle")
    ELSE IF s.target = "near" THEN change_state(s, "combat")
    ELSE SMPress(SMPress(s, "mouse_path"), "click")

execute_combat_logic(s, alive, status) ==
    IF s.target = "none" \/ ~alive
    THEN change_state([s EXCEPT !.target = "none"], "idle")
    ELSE IF status \in {"stunned", "knocked_down"}
         THEN SetCooldown(SMPress(s, "4"), "high_damage",
                          s.now + high_damage_cooldown)
         ELSE execute_combat_rotation(s)

execute_loot_logic(s, items) ==
    IF items THEN SMPress(SMPress(SMPress(s, "mouse_path"), "click"), "F")
    ELSE change_state(s, "idle")

should_rest(s, frame) == frame /\ (s.cyc.hp < 9 \/ s.cyc.mp < 8)

execute_rest_logic(s, frame) ==
    IF should_rest(s, frame) THEN SMPress(s, "R") ELSE change_state(s, "idle")

\* navigate_minimap presses a direction; self.is_stuck is the attribute
\* assigned False in __init__, which hides the method of that name, so the
\* call self.is_stuck() raises TypeError.
execute_roaming_logic(s, dir) ==
    [SMPress(s, dir) EXCEPT !.cyc.raised = "TypeError"]

execute_emergency_heal_logic(s, frame) ==
    LET p == SMPress(s, "H")
    IN  IF frame /\ s.cyc.hp > hp_threshold + 1
        THEN change_state(p, "idle") ELSE p

execute_unstuck_logic(s, dir) ==
    change_state(SMPress(SMPress(s, "SPACE"), dir), "idle")

\* What the screen gives to one update(): whether capture_screen returns a
\* frame, what the frame shows, and what the reads made inside the per-state
\* logic get (frame2: whether their own capture returns a frame).
NoInput ==
    [frame |-> FALSE, hp |-> 0, mp |-> 0, monsters |-> FALSE, frame2 |-> TRUE,
     tgt |-> "near", alive |-> TRUE, status |-> "none", items |-> FALSE,
     dir |-> "W", udir |-> "A"]

\* The inputs the logic of the state reads, the others left as in b.
LogicInputs(st, b) ==
    CASE st = "idle" ->
            {[b EXCEPT !.frame2 = FALSE]} \cup
            {[b EXCEPT !.tgt = t] :
                t \in IF b.monsters THEN {"near", "far"} ELSE {"near"}}
      [] st = "combat" ->
            {[b EXCEPT !.frame2 = FALSE], [b EXCEPT !.alive = FALSE]} \cup
            {[b EXCEPT !.status = x] :
                x \in {"none", "stunned", "knocked_down"}}
      [] st \in {"rest", "emergency_heal"} ->
            {[b EXCEPT !.frame2 = f] : f \in BOOLEAN}
      [] st = "roaming" -> {[b EXCEPT !.dir = d] : d \in {"W", "A", "S", "D"}}
      [] st = "loot" -> {[b EXCEPT !.items = i] : i \in BOOLEAN}
      [] st = "unstuck" -> {[b EXCEPT !.udir = d] : d \in {"A", "D"}}
      [] OTHER -> {b}

SMInputs(s) ==
    IF s.vision = "Vision" THEN {NoInput}
    ELSE {NoInput} \cup
         UNION {LogicInputs(s.state, [NoInput EXCEPT !.frame = TRUE, !.hp = h,
                                         !.mp = m, !.monsters = mon]) :
                   h \in HpReads, m \in MpReads, mon \in BOOLEAN}

execute_state_logic(s0, in) ==
    LET s == [s0 EXCEPT !.cyc.logic = TRUE] IN
    CASE s.state = "idle"     -> execute_idle_logic(s, in.frame2, in.tgt)
      [] s.state = "approach" -> execute_approach_logic(s)
      [] s.state = "combat"   ->
            execute_combat_logic(s, in.frame2 /\ in.alive,
                                 IF in.frame2 THEN in.status ELSE "none")
      [] s.state = "loot"     -> execute_loot_logic(s, in.items)
      [] s.state = "rest"     -> execute_rest_logic(s, in.frame2)
      [] s.state = "roaming"  -> execute_roaming_logic(s, in.dir)
      [] s.state = "emergency_heal" ->
            execute_emergency_heal_logic(s, in.frame2)
      [] s.state = "unstuck"  -> execute_unstuck_logic(s, in.udir)
      [] OTHER -> s

\* StateMachine.update() on the inputs in.
update_mp_first(s0, in) ==
    LET s == [s0 EXCEPT !.cyc = [NoCycle EXCEPT !.start = s0.state]] IN
    IF s.vision = "Vision" THEN [s EXCEPT !.cyc.raised = "AttributeError"]
    ELSE IF ~in.frame THEN s
    ELSE LET r == [s EXCEPT !.cyc.frame = TRUE, !.cyc.hp = in.hp,
                            !.cyc.mp = in.mp, !.cyc.monsters = in.monsters]
         IN  IF r.cyc.mp < mp_threshold THEN change_state(r, "rest")
             ELSE IF r.cyc.hp < hp_threshold
                  THEN change_state(r, "emergency_heal")
                  ELSE execute_state_logic(r, in)
update(s0, in) ==
    LET s == [s0 EXCEPT !.cyc = [NoCycle EXCEPT !.start = s0.state]] IN
    IF s.vision = "Vision" THEN [s EXCEPT !.cyc.raised = "AttributeError"]
    ELSE IF ~in.frame THEN s
    ELSE LET r == [s EXCEPT !.cyc.frame = TRUE, !.cyc.hp = in.hp,
                            !.cyc.mp = in.mp, !.cyc.monsters = in.monsters]
         IN  IF r.cyc.hp < hp_threshold THEN change_state(r, "emergency_heal")
             ELSE IF r.cyc.mp < mp_threshold THEN change_state(r, "rest")
                  ELSE execute_state_logic(r, in)

\* One pass of the loop of LogicController.start: update(), an exception it
\* raises being caught and logged.
SMUpdate ==
    /\ sm.running
    /\ \E in \in SMInputs(sm) : sm' = update(sm, in)

\* LogicController.stop().
SMStop ==
    /\ sm.running
    /\ sm' = [sm EXCEPT !.running = FALSE]

MaxSMTime == 1
SMTick ==
    /\ sm.now < MaxSMTime
    /\ sm' = [sm EXCEPT !.now = @ + 1]

(***************************************************************************)
(* AntiDetection.randomize_skill_order (modules/anti_detect.py) and        *)
(* random_delay (modules/utils.py, copied in modules/anti_detect.py)       *)
(***************************************************************************)

\* The loop of randomize_skill_order from index i (1-based) on: draws[i] is
\* whether random.random() < 0.1 at that index, and then randomized[i] and
\* randomized[i + 1] are exchanged.
RECURSIVE SwapLoop(_, _, _)
SwapLoop(randomized, draws, i) ==
    IF i > Len(randomized) - 1 THEN randomized
    ELSE SwapLoop(IF draws[i]
                  THEN [randomized EXCEPT ![i] = randomized[i + 1],
                                          ![i + 1] = randomized[i]]
                  ELSE randomized,
                  draws, i + 1)

\* randomize_skill_order(skills): the list returned, and the argument list
\* after the call (the loop works on skills.copy()).
randomize_skill_order(skills, draws) ==
    IF Len(skills) <= 1 THEN [out |-> skills, arg |-> skills]
    ELSE [out |-> SwapLoop(skills, draws, 1), arg |-> skills]

\* Delays are in twelfths of the unit of min_delay and max_delay, so that
\* the mean (min + max) / 2 and the deviation (max - min) / 6 are integers.
DelayScale == 2 * 6

Clamp_none(lo, hi, x) == x
Clamp(lo, hi, x) == Max(lo, Min(hi, x))

\* random_delay(min_delay, max_delay, distribution).  draw: for "uniform",
\* random.uniform's fraction of the range in twelfths (0..12, the end point
\* being reachable by rounding); for "gaussian", the number of standard
\* deviations random.gauss lies from the mean.
random_delay(min_delay, max_delay, distribution, draw) ==
    IF distribution = "uniform"
    THEN [raised |-> FALSE,
          value |-> DelayScale * min_delay + (max_delay - min_delay) * draw]
    ELSE IF distribution = "gaussian"
    THEN LET mean    == (DelayScale \div 2) * (min_delay + max_delay)
             std_dev == (DelayScale \div 6) * (max_delay - min_delay)
             delay   == mean + std_dev * draw
         IN  [raised |-> FALSE,
              value |-> Clamp(DelayScale * min_delay, DelayScale * max_delay,
                              delay)]
    ELSE [raised |-> TRUE, value |-> 0]

(***************************************************************************)
(* BotController (modules/controller.py) and toggle_bot (main_new.py)      *)
(***************************************************************************)

\* BotController.__init__: not running, program active, no thread.
CtlFresh ==
    [running |-> FALSE, program_active |-> TRUE, bot_thread |-> 0,
     workers |-> << >>, hk |-> "idle", in_exit |-> FALSE, closed |-> FALSE,
     last |-> NoCall]

\* Threads created in one run.
MaxWorkers == 2

\* Thread.is_alive(): started and not yet finished.
Executing == {"head", "cycle", "check", "except", "finally"}
Alive(c, t) == t # 0 /\ c.workers[t] \in Executing

\* What a call may change besides starting a worker's steps.
Snapshot(c) ==
    [running |-> c.running, program_active |-> c.program_active,
     bot_thread |-> c.bot_thread, threads |-> Len(c.workers)]

\* start() without the test of the running flag.
start_no_guard(c, ok) ==
    LET t == Len(c.workers) + 1 IN
    IF ok
    THEN [c |-> [c EXCEPT !.running = TRUE, !.bot_thread = t,
                          !.workers = Append(@, "head")], ret |-> TRUE]
    ELSE [c |-> [c EXCEPT !.running = FALSE, !.bot_thread = t,
                          !.workers = Append(@, "unstarted")], ret |-> FALSE]

\* BotController.start(); ok: whether Thread.start() succeeds (the except
\* clause otherwise).
start(c, ok) ==
    LET t == Len(c.workers) + 1 IN
    IF c.running THEN [c |-> c, ret |-> FALSE]
    ELSE IF ok
    THEN [c |-> [c EXCEPT !.running = TRUE, !.bot_thread = t,
                          !.workers = Append(@, "head")], ret |-> TRUE]
    ELSE [c |-> [c EXCEPT !.running = FALSE, !.bot_thread = t,
                          !.workers = Append(@, "unstarted")], ret |-> FALSE]

Returned(c0, c, op, ret) ==
    [c EXCEPT !.hk = "idle", !.in_exit = FALSE,
              !.last = [op |-> op, pre |-> Snapshot(c0), post |-> Snapshot(c),
                        ret |-> ret, alive |-> Alive(c, c.bot_thread),
                        others |-> {w \in 1..Len(c0.workers) :
                                       c0.workers[w] \in Executing}]]

CtlStart ==
    /\ ctl.hk = "idle"
    /\ ctl.running \/ Len(ctl.workers) < MaxWorkers
    /\ \E ok \in BOOLEAN :
          LET r == start(ctl, ok) IN ctl' = Returned(ctl, r.c, "start", r.ret)

\* exit() after its call of stop(): close the resources, program_active =
\* False, return True.
ExitTail(c0, c) ==
    Returned(c0, [c EXCEPT !.closed = TRUE, !.program_active = FALSE], "exit", TRUE)

\* stop() after the join: combat_logic.reset(), return True; then the rest of
\* exit() when stop() was called from it.
StopTail(c0, c) ==
    IF c.in_exit THEN ExitTail(c0, c) ELSE Returned(c0, c, "stop", TRUE)

\* stop() up to the join: no-op when not running; else clear the flag and
\* wait for the worker when it is alive.
StopHead(c, inexit) ==
    IF ~c.running THEN Returned(c, c, "stop", FALSE)
    ELSE LET c1 == [c EXCEPT !.running = FALSE, !.in_exit = inexit] IN
         IF Alive(c, c.bot_thread) THEN [c1 EXCEPT !.hk = "join"]
         ELSE StopTail(c, c1)

CtlStop ==
    /\ ctl.hk = "idle"
    /\ ctl' = StopHead(ctl, FALSE)

\* A join without a timeout: it returns only when the worker has finished.
CtlJoin_unbounded ==
    /\ ctl.hk = "join"
    /\ ~Alive(ctl, ctl.bot_thread)
    /\ ctl' = StopTail(ctl, ctl)

\* bot_thread.join(timeout=2.0) returns: the worker has finished, or the two
\* seconds are over and stop() goes on all the same.
CtlJoin ==
    /\ ctl.hk = "join"
    /\ ctl' = StopTail(ctl, ctl)

CtlExit ==
    /\ ctl.hk = "idle"
    /\ ctl' = IF ctl.running THEN StopHead(ctl, TRUE) ELSE ExitTail(ctl, ctl)

\* toggle_bot(): its global bot_thread is never assigned, so the wait for an
\* old thread is skipped.
ToggleBot == IF ~ctl.running THEN CtlStart ELSE CtlStop

\* _bot_loop of worker w: the while test.
WorkerHead(w) ==
    /\ ctl.workers[w] = "head"
    /\ ctl' = [ctl EXCEPT !.workers[w] = IF ctl.running THEN "cycle" ELSE "finally"]

\* combat_logic.run_cycle() returns (reset() after False), or raises.
WorkerCycle(w) ==
    /\ ctl.workers[w] = "cycle"
    /\ \E raised \in BOOLEAN :
          ctl' = [ctl EXCEPT !.workers[w] = IF raised THEN "except" ELSE "check"]

\* except Exception: the handler, outside the while loop, logs the error; the
\* finally clause is next.
WorkerExcept(w) ==
    /\ ctl.workers[w] = "except"
    /\ ctl' = [ctl EXCEPT !.workers[w] = "finally"]

\* if not self.running: break
WorkerCheck(w) ==
    /\ ctl.workers[w] = "check"
    /\ ctl' = [ctl EXCEPT !.workers[w] = IF ctl.running THEN "head" ELSE "finally"]

\* finally: self.running = False; the thread ends.
WorkerFinally(w) ==
    /\ ctl.workers[w] = "finally"
    /\ ctl' = [ctl EXCEPT !.workers[w] = "done", !.running = FALSE]

\* The Bot object's link meets no I/O fault here (Spec and SpecHW have them).
InitCtl ==
    /\ hw = [HwInit EXCEPT !.nfail = MaxFaults]
    /\ last = NoCall
    /\ BotFresh
    /\ cfg = DefaultConfig
    /\ ctl = CtlFresh
    /\ sm = SMFresh

CtlFrame == UNCHANGED <<hwVars, botVars, sm>>

\* The calls on the controller and its workers' steps; and, on a Bot object
\* of its own, start(), stop() and exit() with the loop's while test (the
\* cycles of bot_loop, which write neither flag's hard-stop half, are in Spec).
NextCtl ==
    \/ CtlStart /\ CtlFrame
    \/ CtlStop /\ CtlFrame
    \/ CtlJoin /\ CtlFrame
    \/ CtlExit /\ CtlFrame
    \/ ToggleBot /\ CtlFrame
    \/ \E w \in 1..Len(ctl.workers) : WorkerHead(w) /\ CtlFrame
    \/ \E w \in 1..Len(ctl.workers) : WorkerCycle(w) /\ CtlFrame
    \/ \E w \in 1..Len(ctl.workers) : WorkerCheck(w) /\ CtlFrame
    \/ \E w \in 1..Len(ctl.workers) : WorkerExcept(w) /\ CtlFrame
    \/ \E w \in 1..Len(ctl.workers) : WorkerFinally(w) /\ CtlFrame
    \/ BotStart
    \/ BotInit
    \/ BotStop
    \/ BotExit
    \/ LoopExit

SpecCtl == InitCtl /\ [][NextCtl]_vars

\* The hotkey thread is scheduled, and join(timeout=2.0) returns after two
\* seconds at the latest: a call waiting in the join goes on.  Nothing is
\* assumed of the workers, which may never take another step.
SpecCtlLive == SpecCtl /\ WF_vars(CtlJoin /\ CtlFrame)

(***************************************************************************)
(* Spec: a Bot driven by start/stop from the hotkey thread, with the       *)
(* sensor and the serial link left to the environment.  Its configurations *)
(* set no skill cooldowns (SpecDefense has them, and the clock).           *)
(***************************************************************************)
BotConfigs ==
    { DefaultConfig,
      [DefaultConfig EXCEPT !.starter = "", !.moving = FALSE,
                            !.hkeys = [k \in {"provoke_roar", "taunt"} |->
                                          IF k = "taunt" THEN "7" ELSE "8"]],
      [DefaultConfig EXCEPT !.hkeys = << >>, !.hprio = << >>] }

\* The environment has one I/O fault to inject in a run of the loop.
Init ==
    /\ hw = [HwInit EXCEPT !.nfail = MaxFaults - 1]
    /\ last = NoCall
    /\ BotFresh
    /\ cfg \in BotConfigs
    /\ ctl = CtlFresh
    /\ sm = SMFresh

BotStep ==
    \/ BotInit \/ LoopExit \/ CycleSleep
    \/ IdleCycle \/ SelWait1 \/ SelWait2 \/ Unstuck
    \/ CombatCycle \/ StarterWait \/ Weave
    \/ DefBegin \/ DefIter \/ DefWait
    \/ MWStart \/ MWWait0 \/ MWWindup \/ MWAfter
    \/ WSStart \/ WSWindup \/ WSAfter
    \/ HateBegin \/ HateWait1 \/ HatePrio \/ HateWait2 \/ HateDefault \/ HateWait3

Next == BotStart \/ BotStop \/ BotStep

Spec == Init /\ [][Next]_vars
\* The thread running the loop keeps executing: every sensor and serial call
\* it makes returns.
SpecLive == Spec /\ WF_vars(BotStep)

(***************************************************************************)
(* SpecDefense: use_defense_skills called again and again by a running     *)
(* loop, over every priority list of up to MaxPrio entries, with the clock *)
(* and the skill cooldowns.                                                *)
(***************************************************************************)
MaxPrio == 3
DefenseEntries ==
    {<<"shield", 30>>, <<"shield", 50>>, <<"heal", 50>>, <<"dual_armor", 50>>}
PrioLists == UNION {[1..n -> DefenseEntries] : n \in 0..MaxPrio}
\* DEFENSE_SKILLS: every skill on its own key; or heal left empty and
\* dual_armor absent.
DefenseKeyMaps ==
    { [k \in DefenseSkills |->
          IF k = "shield" THEN "4" ELSE IF k = "heal" THEN "5" ELSE "6"],
      [k \in {"shield", "heal"} |-> IF k = "shield" THEN "4" ELSE ""] }
\* SKILL_COOLDOWNS, in ticks.
CooldownMaps == { << >>, [k \in {"shield"} |-> 2] }
DefenseConfigs ==
    {[DefaultConfig EXCEPT !.prio = p, !.dkeys = d, !.cds = c] :
        p \in PrioLists, d \in DefenseKeyMaps, c \in CooldownMaps}

\* The loop has opened the link; the environment has one I/O fault left.
InitDefense ==
    /\ hw = [HwInit EXCEPT !.conn = "open", !.port = TRUE, !.drained = TRUE,
                           !.nfail = MaxFaults - 1]
    /\ last = NoCall
    /\ BotFresh
    /\ cfg \in DefenseConfigs
    /\ ctl = CtlFresh
    /\ sm = SMFresh

\* The Combat branch of a running loop calls use_defense_skills.
CallDefense ==
    /\ pc = "off"
    /\ running' = TRUE
    /\ log' = << >>
    /\ Call("def_begin", "off")
    /\ UNCHANGED <<sm, ctl, hw, last, state, active, stuck_counter, is_first_attack,
                   skill_cooldowns, now, loc, cfg, fails>>

NextDefense ==
    CallDefense \/ DefBegin \/ DefIter \/ DefWait \/ BotStop \/ Tick

SpecDefense == InitDefense /\ [][NextDefense]_vars

(***************************************************************************)
(* SpecHate: manage_hate called again and again by a running loop, over    *)
(* every HATE_SKILLS map of the three skills onto two keys (a key left     *)
(* empty or shared included) and every priority list of up to MaxHatePrio  *)
(* entries.                                                                *)
(***************************************************************************)
MaxHatePrio == 2
HateNames == {"provoke", "provoke_roar", "taunt"}
HateKeyMaps == UNION {[S -> {"", "6", "7"}] : S \in SUBSET HateNames}
HatePrioLists == UNION {[1..n -> HateNames] : n \in 0..MaxHatePrio}
HateConfigs ==
    {[DefaultConfig EXCEPT !.hkeys = k, !.hprio = p] :
        k \in HateKeyMaps, p \in HatePrioLists}

\* The loop has opened the link; the environment has one I/O fault left.
InitHate ==
    /\ hw = [HwInit EXCEPT !.conn = "open", !.port = TRUE, !.drained = TRUE,
                           !.nfail = MaxFaults - 1]
    /\ last = NoCall
    /\ BotFresh
    /\ cfg \in HateConfigs
    /\ ctl = CtlFresh
    /\ sm = SMFresh

\* The Combat branch of a running loop calls manage_hate.
CallHate ==
    /\ pc = "off"
    /\ running' = TRUE
    /\ log' = << >>
    /\ Call("hate_begin", "off")
    /\ UNCHANGED <<sm, ctl, hw, last, state, active, stuck_counter, is_first_attack,
                   skill_cooldowns, now, loc, cfg, fails>>

NextHate ==
    CallHate \/ HateBegin \/ HateWait1 \/ HatePrio \/ HateWait2 \/ HateDefault
    \/ HateWait3 \/ BotStop

SpecHate == InitHate /\ [][NextHate]_vars

(***************************************************************************)
(* SpecSM: the loop of LogicController.start over a StateMachine, the      *)
(* screen showing anything in each cycle.  SpecSMLive: the loop keeps      *)
(* running while running is true.                                          *)
(***************************************************************************)
InitSM ==
    /\ hw = HwInit
    /\ last = NoCall
    /\ BotFresh
    /\ cfg = DefaultConfig
    /\ ctl = CtlFresh
    /\ \E v \in VisionKinds : sm = SMNew(v)

SMFrame == UNCHANGED <<hwVars, botVars, ctl>>

NextSM ==
    \/ SMUpdate /\ SMFrame
    \/ SMStop /\ SMFrame
    \/ SMTick /\ SMFrame

SpecSM == InitSM /\ [][NextSM]_vars
SpecSMLive == SpecSM /\ WF_vars(SMUpdate /\ SMFrame)

(***************************************************************************)
(* SpecPure: the pure computations, applied to inputs drawn from bounded   *)
(* sets; last holds the inputs, then the inputs and the result.            *)
(***************************************************************************)
MaxNominal == 25
MaxSpread == 12
MaxDraw == 15

\* The arguments of a smart_sleep call and the gaussian draw it will make.
SleepArgs ==
    [op : {"smart_sleep_args"}, nominal : 1..MaxNominal, spread : 0..MaxSpread,
     draw : (0 - MaxDraw)..MaxDraw]

InitPure ==
    /\ hw = HwInit
    /\ last \in SleepArgs
    /\ BotFresh
    /\ cfg = DefaultConfig
    /\ ctl = CtlFresh
    /\ sm = SMFresh

PureFrame == UNCHANGED <<hw, botVars, ctl, sm>>

\* smart_sleep(nominal, spread) up to the computation of actual_duration.
CallSmartSleep ==
    /\ last.op = "smart_sleep_args"
    /\ last' = [op |-> "smart_sleep", nominal |-> last.nominal,
                spread |-> last.spread, draw |-> last.draw,
                actual |-> actual_duration(last.nominal, last.spread, last.draw)]

NextPure ==
    \/ CallSmartSleep /\ PureFrame

SpecPure == InitPure /\ [][NextPure]_vars

(***************************************************************************)
(* SpecHW: the serial command channel driven call by call.                 *)
(***************************************************************************)
Cmds == {KeyDown("W"), KeyUp("W"), KeyDown("1")}
MaxClicks == 2

InitHW ==
    /\ hw = HwInit
    /\ last = NoCall
    /\ BotFresh
    /\ cfg = DefaultConfig
    /\ ctl = CtlFresh
    /\ sm = SMFresh

CallInit ==
    \E io \in InitOutcomes(hw) :
        LET r == init_serial(hw, io) IN
        /\ hw' = r.h
        /\ last' = [op |-> "init", pre |-> hw.conn, ok |-> r.ok]

CallSend ==
    \E cmd \in Cmds, wa \in BOOLEAN :
        \E e \in SendEnv(hw, wa) :
            LET r == send_serial_command(hw, cmd, wa, e) IN
            /\ hw' = r.h
            /\ last' = [op |-> "send", cmd |-> cmd, wait_ack |-> wa, pre |-> hw.conn,
                        ok |-> r.ok, written |-> r.written, opens |-> r.opens,
                        reopen |-> r.reopen, exc |-> r.exc, io |-> e.io,
                        reply |-> e.reply, reads |-> r.reads, line |-> r.line,
                        trace |-> r.trace, pre_rx |-> hw.rx,
                        pre_drained |-> hw.drained, post_rx |-> r.h.rx]

CallPressKey ==
    \E key \in Keys, run \in BOOLEAN :
        \E r \in press_key(hw, key, run) :
            /\ hw' = r.h
            /\ last' = [op |-> "press_key", key |-> key, running |-> run,
                        pre |-> hw.conn, ok |-> r.ok, written |-> r.written]

CallClick ==
    \E b \in {"left", "right", "middle"}, n \in 1..MaxClicks, run \in BOOLEAN :
        \E r \in click_mouse(hw, b, n, run) :
            /\ hw' = r.h
            /\ last' = [op |-> "click_mouse", button |-> b, clicks |-> n,
                        running |-> run, pre |-> hw.conn, ok |-> r.ok,
                        written |-> r.written]

CallClose ==
    /\ hw' = hw_close(hw)
    /\ last' = [op |-> "close", pre |-> hw.conn]

\* A line from the peripheral arrives on the open link between two calls
\* (the reply to a command sent without wait_ack, a late reply, a banner).
MaxPending == 1
Deliver ==
    /\ hw.conn = "open"
    /\ Len(hw.rx) < MaxPending
    /\ \E l \in {OkLine, <<"E", "R", "R", "\n">>} :
          hw' = [hw EXCEPT !.rx = Append(@, l)]
    /\ UNCHANGED last

HwFrame == UNCHANGED <<botVars, ctl, sm>>

NextHW ==
    \/ CallInit /\ HwFrame
    \/ CallSend /\ HwFrame
    \/ CallPressKey /\ HwFrame
    \/ CallClick /\ HwFrame
    \/ CallClose /\ HwFrame
    \/ Deliver /\ HwFrame

SpecHW == InitHW /\ [][NextHW]_vars

(***************************************************************************)
(* SpecMouse: send_mouse_input on targets up to MaxDelta away, for the     *)
(* extreme and middle offsets of the control points, from an open or a     *)
(* not yet opened link with one I/O fault left.                            *)
(***************************************************************************)
MaxDelta == 10
Deltas == {0 - MaxDelta, 0, 5, MaxDelta}
MouseArgs ==
    [op : {"mouse_args"}, dx : Deltas, dy : Deltas, running : BOOLEAN,
     c : CpOffsets \X CpOffsets \X CpOffsets \X CpOffsets]

InitMouse ==
    /\ hw \in {[HwInit EXCEPT !.nfail = MaxFaults - 1],
               [HwInit EXCEPT !.conn = "open", !.port = TRUE, !.drained = TRUE,
                              !.nfail = MaxFaults - 1]}
    /\ last \in MouseArgs
    /\ BotFresh
    /\ cfg = DefaultConfig
    /\ ctl = CtlFresh
    /\ sm = SMFresh

CallMouse ==
    /\ last.op = "mouse_args"
    /\ \E r \in send_mouse_input(hw, last.dx, last.dy, last.running, last.c) :
          /\ hw' = r.h
          /\ last' = [op |-> "send_mouse_input", dx |-> last.dx, dy |-> last.dy,
                      running |-> last.running, c |-> last.c, ok |-> r.ok,
                      written |-> r.written, sends |-> r.sends]

NextMouse ==
    \/ CallMouse /\ HwFrame

SpecMouse == InitMouse /\ [][NextMouse]_vars

(***************************************************************************)
(* SpecUtil: randomize_skill_order on the lists of up to MaxSkills skills  *)
(* and random_delay on bounds up to MaxDelay, for every draw.              *)
(***************************************************************************)
MaxSkills == 4
SkillLists == {[i \in 1..n |-> i] : n \in 0..MaxSkills}
ShuffleArgs ==
    UNION {[op : {"shuffle_args"}, skills : {sk},
            draws : [1..Max(0, Len(sk) - 1) -> BOOLEAN]] : sk \in SkillLists}

MaxDelay == 4
MaxSigmas == 4
DelayArgs ==
    [op : {"delay_args"}, min : 0..MaxDelay, max : 0..MaxDelay,
     distribution : {"uniform"}, draw : 0..DelayScale]
    \cup [op : {"delay_args"}, min : 0..MaxDelay, max : 0..MaxDelay,
          distribution : {"gaussian"}, draw : (0 - MaxSigmas)..MaxSigmas]
    \cup [op : {"delay_args"}, min : 0..MaxDelay, max : 0..MaxDelay,
          distribution : {"normal"}, draw : {0}]

InitUtil ==
    /\ hw = HwInit
    /\ last \in ShuffleArgs \cup DelayArgs
    /\ BotFresh
    /\ cfg = DefaultConfig
    /\ ctl = CtlFresh
    /\ sm = SMFresh

CallRandomize ==
    /\ last.op = "shuffle_args"
    /\ LET r == randomize_skill_order(last.skills, last.draws)
       IN  last' = [op |-> "randomize_skill_order", skills |-> last.skills,
                    draws |-> last.draws, out |-> r.out, arg |-> r.arg]

CallRandomDelay ==
    /\ last.op = "delay_args"
    /\ LET r == random_delay(last.min, last.max, last.distribution, last.draw)
       IN  last' = [op |-> "random_delay", min |-> last.min, max |-> last.max,
                    distribution |-> last.distribution, draw |-> last.draw,
                    raised |-> r.raised, value |-> r.value]

NextUtil ==
    \/ CallRandomize /\ PureFrame
    \/ CallRandomDelay /\ PureFrame

SpecUtil == InitUtil /\ [][NextUtil]_vars

(***************************************************************************)
(* Claims on the serial command channel (checked under SpecHW).            *)
(***************************************************************************)
KeyboardPress == last.op = "press_key" /\ last.key \notin {"mouse1", "mouse2"}

IsPrefix(s, t) == Len(s) <= Len(t) /\ \A i \in 1..Len(s) : s[i] = t[i]

\* C3 (as stated): every press_key call for a keyboard key emits exactly one
\* KEY_DOWN,<TOKEN> followed by exactly one KEY_UP,<TOKEN> for the same
\* uppercase token, whichever of its sends succeed or fail.
C3_PressKeyAlwaysDownThenUp ==
    KeyboardPress =>
        last.written = <<KeyDown(Upper(last.key)), KeyUp(Upper(last.key))>>

\* C3 (amended): a press_key call for a keyboard key emits a prefix of
\* <<KEY_DOWN,<TOKEN>, KEY_UP,<TOKEN>>> for the uppercase token (never a
\* KEY_UP without the KEY_DOWN before it, never two of either); it emits the
\* whole pair whenever it returns True, and when it emitted less than the
\* pair it returned False.
C3_PressKeyDownUpUnlessSendFails ==
    KeyboardPress =>
        LET pair == <<KeyDown(Upper(last.key)), KeyUp(Upper(last.key))>> IN
        /\ IsPrefix(last.written, pair)
        /\ last.ok => last.written = pair
        /\ last.written # pair => ~last.ok

\* C3 witness: a keyboard press_key on a link that had to be reopened emitted
\* the whole pair and returned True.
C3_Witness ==
    /\ KeyboardPress /\ last.key = "s" /\ last.pre # "open" /\ last.ok
    /\ last.written = <<KeyDown("S"), KeyUp("S")>>

\* C9: send_serial_command called while the link is closed (no connection
\* object, or connection not open) makes exactly one reopen attempt, and if
\* that reopen fails it returns False and writes nothing.
C9_ClosedSendReopensOnce ==
    (last.op = "send" /\ last.pre # "open") =>
        /\ last.opens = 1
        /\ last.reopen # "ok" => (~last.ok /\ last.written = <<>>)

\* C9 witness: a send on a closed link whose reopen failed.
C9_Witness ==
    /\ last.op = "send" /\ last.pre = "closed" /\ last.reopen = "err_open"
    /\ ~last.ok /\ last.written = <<>>

\* C10 (as stated): after any I/O failure inside send_serial_command (an
\* exception on flush, write or read, raised in its try block or in the
\* flush/read of the reopen it performs) the call returns False and the link
\* is Closed, so that the next send reopens.
C10_IoFailureClosesLink ==
    (last.op = "send" /\ (last.exc \/ last.reopen = "err_settle")) =>
        (~last.ok /\ hw.conn = "closed")

\* The line is the two characters O, K with nothing but white space (the
\* line end included) before and after.
IsOkLine(l) ==
    \E i \in 0..(Len(l) - 2) :
        /\ l[i + 1] = "O" /\ l[i + 2] = "K"
        /\ \A j \in 1..Len(l) : j \notin {i + 1, i + 2} => l[j] \in {" ", "\t", "\r", "\n"}

\* The send got as far as a completed write: link open or reopened, no
\* exception in flushInput, write or flush.
WriteDone ==
    /\ last.op = "send" /\ last.reopen \in {"none", "ok"}
    /\ last.io \in {"ok", "err_read"}

\* C11: a send whose write succeeded has written the command; with wait_ack
\* it reads one line and returns True if and only if that line is the
\* acknowledgement OK (any other line, an empty or missing one, or a failed
\* read gives False); without wait_ack it returns True and reads nothing.
C11_AckDecidesResult ==
    WriteDone =>
        /\ last.written = <<last.cmd>>
        /\ last.wait_ack =>
              /\ last.reads = 1
              /\ last.ok <=> (last.io = "ok" /\ IsOkLine(last.line))
        /\ ~last.wait_ack => (last.ok /\ last.reads = 0)

\* C11 witness: a send with wait_ack wrote its command, read the line ERR and
\* returned False.
C11_Witness ==
    /\ WriteDone /\ last.wait_ack /\ last.io = "ok"
    /\ last.line = <<"E", "R", "R", "\n">>
    /\ last.written = <<last.cmd>> /\ ~last.ok

\* C12: send_serial_command flushes the pending input right before it
\* writes; a line that was pending when the call started is gone after the
\* write, and the line the call compares with OK is the one that arrived
\* after the write (or none), never a pending one.
C12_FlushBeforeWrite ==
    last.op = "send" =>
        /\ \A j \in 1..Len(last.trace) :
              last.trace[j] \in {"write", "write_raised"} =>
                  (j > 1 /\ last.trace[j - 1] = "flushInput")
        /\ (WriteDone /\ last.pre_rx # << >>) =>
              /\ last.post_rx = << >>
              /\ (last.wait_ack /\ last.io = "ok") => last.line = last.reply

\* C12 witness: an OK line was pending when a send with wait_ack began; the
\* command was written, no reply came, and the call returned False.
C12_Witness ==
    /\ WriteDone /\ last.wait_ack /\ last.io = "ok"
    /\ last.pre_rx = <<OkLine>> /\ last.reply = << >>
    /\ last.written = <<last.cmd>> /\ ~last.ok

\* C13 (as stated): a command is written only on a link whose open was
\* followed by the settle wait and the banner drain, in the initial open and
\* in a reopen made by send alike.
C13_NoCommandBeforeDrain ==
    (last.op = "send" /\ last.written # << >>) =>
        IF last.opens = 1
        THEN /\ Len(last.trace) >= 5
             /\ SubSeq(last.trace, 1, 4) = <<"open", "settle", "flushInput", "drain">>
        ELSE last.pre_drained

(***************************************************************************)
(* Claims on the pure computations (checked under SpecPure).               *)
(***************************************************************************)
\* C14 (as stated): for every nominal > 0, spread >= 0 and gaussian draw, the
\* duration smart_sleep waits for lies in
\* [max(10 ms, nominal - spread), nominal + spread].
C14_SleepWithinSpread ==
    last.op = "smart_sleep" =>
        /\ last.actual >= (IF last.nominal - last.spread >= 10
                           THEN last.nominal - last.spread ELSE 10)
        /\ last.actual <= last.nominal + last.spread

\* C14 (amended): the duration lies in
\* [max(10 ms, nominal - spread), max(10 ms, nominal + spread)]: the 10 ms
\* floor also lifts the upper end when nominal + spread is under 10 ms.
C14_SleepWithinSpreadOrFloor ==
    last.op = "smart_sleep" =>
        /\ last.actual >= (IF last.nominal - last.spread >= 10
                           THEN last.nominal - last.spread ELSE 10)
        /\ last.actual <= (IF last.nominal + last.spread >= 10
                           THEN last.nominal + last.spread ELSE 10)

\* C14 witness: a draw beyond the spread is cut to it: nominal 20 ms, spread
\* 5 ms, draw +9 ms give 25 ms.
C14_Witness ==
    /\ last.op = "smart_sleep" /\ last.nominal = 20 /\ last.spread = 5
    /\ last.draw = 9 /\ last.actual = 25

(***************************************************************************)
(* Claims on the Bot loop (checked under Spec).                            *)
(***************************************************************************)
InLog(e) == \E i \in 1..Len(log) : log[i] = e
IsWire(e) == e[1] \in {"KEY_DOWN", "KEY_UP"}

\* The keys of the press_key calls logged after position b, in order.
PressedAfter(b) ==
    LET p == SelectSeq(SubSeq(log, b + 1, Len(log)), LAMBDA e : e[1] = "press")
    IN  [i \in 1..Len(p) |-> p[i][2]]

\* C4 (as stated): every moving_weave call that has emitted KEY_DOWN,W emits
\* KEY_UP,W before it returns, on every exit path, and sends no command of
\* the weave after that release.
C4_MovingWeaveReleasesW ==
    \A r \in 1..Len(log) : log[r] = Ev("return", "moving_weave") =>
        \A d \in 1..r : log[d] = KeyDown("W") =>
            \E u \in (d + 1)..(r - 1) :
                /\ log[u] = KeyUp("W")
                /\ \A j \in (u + 1)..(r - 1) : ~IsWire(log[j])

\* The part of the log from position b on.
LogFrom(b) == SubSeq(log, b, Len(log))

\* C15: a weave_skill call in which every send succeeded and the running flag
\* stayed true has emitted KEY_DOWN,1 KEY_UP,1, waited the windup, emitted
\* KEY_DOWN,2 KEY_UP,2, waited the post-skill delay, in that order and with
\* no other command, and returned True.
C15_WeaveSkillSequence ==
    \A b \in 1..Len(log) :
        ( /\ log[b] = Ev("call", "weave_skill")
          /\ log[Len(log)] = Ev("return", "weave_skill")
          /\ running
          /\ \A i \in b..Len(log) : log[i] # Ev("sent", "no") )
        => LogFrom(b) =
              << Ev("call", "weave_skill"),
                 Ev("press", "1"), <<"KEY_DOWN", "1">>, <<"KEY_UP", "1">>,
                 Ev("sent", "yes"), Ev("wait", "windup"),
                 Ev("press", "2"), <<"KEY_DOWN", "2">>, <<"KEY_UP", "2">>,
                 Ev("sent", "yes"), Ev("wait", "after_skill"),
                 Ev("result", "True"), Ev("return", "weave_skill") >>

\* C15 witness: such a call has just returned True.
C15_Witness ==
    /\ running /\ Len(log) > 2
    /\ log[Len(log)] = Ev("return", "weave_skill")
    /\ log[Len(log) - 1] = Ev("result", "True")
    /\ \A i \in 1..Len(log) : log[i] # Ev("sent", "no")

\* C16: once stop() has set the running flag false during a cycle, the
\* worker sends no KEY_DOWN again before it leaves bot_loop.
C16_NoPressAfterStop ==
    \A i \in 1..Len(log) :
        log[i] = Ev("stop", "request")
        => \A j \in (i + 1)..Len(log) : log[j][1] # "KEY_DOWN"

\* C22: a failed has-target read is reported as a target, and the cycle that
\* began with it takes the target-present branch (the state is Combat and the
\* select-target key is not pressed); a failed health read is reported as 0,
\* which meets every non-negative threshold, so that use_defense_skills
\* presses the first configured skill of the priority list.
C22_SensorFailOpenSafe ==
    /\ \A i \in 1..Len(log) :
          log[i] = Ev("read_failed", "has_target")
          => (i < Len(log) /\ log[i + 1] = Ev("has_target", "yes"))
    /\ (Len(log) >= 2 /\ log[2] = Ev("read_failed", "has_target"))
          => (state = "combat" /\ ~InLog(Ev("press", KEY_SELECT_TARGET)))
    /\ InLog(Ev("read_failed", "health"))
          => /\ pc \in {"def_iter", "def_wait"}
                => /\ loc.health = 0
                   /\ \A i \in 1..Len(cfg.prio) :
                         cfg.prio[i][2] >= 0 => loc.health <= cfg.prio[i][2]
             /\ (running /\ InLog(Ev("return", "use_defense_skills")))
                => \A i \in 1..Len(cfg.prio) :
                      ( /\ cfg.prio[i][1] \in DOMAIN cfg.dkeys
                        /\ cfg.dkeys[cfg.prio[i][1]] # ""
                        /\ \A j \in 1..(i - 1) :
                              ~(/\ cfg.prio[j][1] \in DOMAIN cfg.dkeys
                                /\ cfg.dkeys[cfg.prio[j][1]] # "") )
                      => InLog(Ev("defense", cfg.prio[i][1]))

\* C22 witness: a Combat cycle whose has-target read and health read both
\* failed has gone on to the defense skills and pressed the first of them.
C22_Witness ==
    /\ Len(log) >= 2 /\ log[1] = Ev("cycle", "combat")
    /\ log[2] = Ev("read_failed", "has_target")
    /\ InLog(Ev("read_failed", "health"))
    /\ InLog(Ev("defense", "shield"))
    /\ running /\ InLog(Ev("return", "use_defense_skills"))

\* C23 (as stated): after a failed send in weave_skill, no KEY_DOWN is sent
\* before that weave_skill call has returned.
C23_FailedSendEndsWeave ==
    \A i \in 1..Len(log) :
        log[i] = Ev("sent", "no")
        => \A j \in (i + 1)..Len(log) :
              log[j][1] = "KEY_DOWN"
              => \E k \in i..j : log[k] = Ev("return", "weave_skill")

\* C24 (as stated): once Bot.stop() has been called on a running Bot and
\* bot_loop has ended, the cooldown table is empty, the first-attack flag is
\* set again and the stuck counter is 0.
C24_StopResetsTransientState ==
    (InLog(Ev("stop", "request")) /\ pc = "off")
    => (skill_cooldowns = << >> /\ is_first_attack /\ stuck_counter = 0)

\* The positions in the cycle's log of the calls of the three action groups.
DefenseCalls == {i \in 1..Len(log) : log[i] = Ev("call", "use_defense_skills")}
WeaveCalls ==
    {i \in 1..Len(log) :
        log[i] \in {Ev("call", "weave_skill"), Ev("call", "moving_weave")}}
HateCalls == {i \in 1..Len(log) : log[i] = Ev("call", "manage_hate")}

\* C25 (as stated): in a Combat cycle the defensive skills come first, then
\* the hate skills, then the weave.
C25_DefenseHateWeave ==
    LET D == DefenseCalls  W == WeaveCalls  H == HateCalls IN
    /\ \A d \in D : \A h \in H : d < h
    /\ \A h \in H : \A w \in W : h < w

\* C25 (amended): in a Combat cycle the defensive skills come first, then the
\* weave, then the hate skills, each called once at most; none of the later
\* groups is begun without the earlier ones.
C25_DefenseWeaveHate ==
    LET D == DefenseCalls  W == WeaveCalls  H == HateCalls IN
    /\ \A d \in D : \A w \in W : d < w
    /\ \A w \in W : \A h \in H : w < h
    /\ H # {} => W # {}
    /\ W # {} => D # {}
    /\ \A a, b \in D : a = b
    /\ \A a, b \in W : a = b
    /\ \A a, b \in H : a = b

\* C25 witness: a Combat cycle with a target has called all three.
C25_Witness ==
    /\ Len(log) >= 2 /\ log[1] = Ev("cycle", "combat")
    /\ InLog(Ev("has_target", "yes"))
    /\ DefenseCalls # {} /\ WeaveCalls # {} /\ HateCalls # {}

\* The opener has been pressed in the cycle of the log.
StarterPressed == \E i \in 1..Len(log) : log[i][1] = "starter"
\* The cycle of the log is a Combat cycle whose check saw a target.
CombatWithTarget ==
    /\ Len(log) >= 2 /\ log[1] = Ev("cycle", "combat")
    /\ InLog(Ev("has_target", "yes"))

\* C26: the opener is pressed at most once in an engagement, in its first
\* Combat cycle with a target: a press happens only in a Combat cycle with a
\* target and the first-attack flag set, once in the cycle; every Combat
\* cycle with a target clears the flag; and the flag is set again only on a
\* step that begins in Idle.
C26_OpenerOncePerEngagement ==
    /\ [][ (StarterPressed' /\ ~(StarterPressed /\ IsPrefix(log, log')))
              => (state = "combat" /\ is_first_attack /\ CombatWithTarget') ]_vars
    /\ [][ (~is_first_attack /\ is_first_attack') => state = "idle" ]_vars
    /\ [](\A i, j \in 1..Len(log) :
              (log[i][1] = "starter" /\ log[j][1] = "starter") => i = j)
    /\ []((CombatWithTarget /\ pc # "starter_wait") => ~is_first_attack)

\* C26 witness: a later Combat cycle of an engagement, with a target and an
\* opener configured, has gone on to its actions without pressing the opener.
C26_Witness ==
    /\ CombatWithTarget /\ cfg.starter # ""
    /\ ~StarterPressed /\ ~is_first_attack
    /\ InLog(Ev("call", "use_defense_skills"))

\* The positions in the cycle's log of the hate skills pressed and of the
\* default attacks issued by manage_hate.
HatePresses == {i \in 1..Len(log) : log[i][1] = "hate"}
DefaultAttacks == {i \in 1..Len(log) : log[i] = Ev("click", "left")}

\* C27: one manage_hate call presses at most one hate skill; it never issues
\* the default attack after a hate skill; and when it has returned with the
\* flag still true, its target check having seen a target and no hate skill
\* pressed, it has issued the default attack exactly once.
C27_OneHateSkillOrDefault ==
    LET H == HatePresses  K == DefaultAttacks  C == HateCalls IN
    /\ \A a, b \in H : a = b
    /\ \A a, b \in K : a = b
    /\ H # {} => K = {}
    /\ \A c \in C :
          ( /\ log[Len(log)] = Ev("return", "manage_hate")
            /\ running
            /\ log[c + 1] # Ev("has_target", "no")
            /\ H = {} )
          => K # {}

\* C27 witness: a manage_hate call with a target and no usable hate skill has
\* returned after one default attack.
C27_Witness ==
    /\ Len(log) > 0 /\ log[Len(log)] = Ev("return", "manage_hate") /\ running
    /\ HatePresses = {} /\ DefaultAttacks # {}

\* C28: manage_hate never presses provoke_roar, on its primary path or from
\* the priority list, whatever the hate skills and priorities configured.
C28_NoAreaProvoke ==
    \A i \in 1..Len(log) : log[i] # Ev("hate", "provoke_roar")

\* C28 witness: with provoke_roar on a key and first in the priority list, and
\* provoke unset, a manage_hate call with a target has returned, the flag
\* still true, having pressed taunt instead.
C28_Witness ==
    /\ Len(cfg.hprio) >= 2 /\ cfg.hprio[1] = "provoke_roar"
    /\ "provoke_roar" \in DOMAIN cfg.hkeys /\ cfg.hkeys["provoke_roar"] = "6"
    /\ "provoke" \notin DOMAIN cfg.hkeys
    /\ Len(log) > 0 /\ log[Len(log)] = Ev("return", "manage_hate") /\ running
    /\ InLog(Ev("hate", "taunt"))

\* The positions in the cycle's log of select_target's key presses, of its
\* sensor queries, and of its waits.
SelectPresses == {i \in 1..Len(log) : log[i] = Ev("press", "tab")}
SelectWaits ==
    {i \in 1..Len(log) :
        log[i] \in {Ev("wait", "selection_delay"), Ev("wait", "retry")}}

\* C29: one select_target call presses the select-target key at most
\* SELECTION_MAX_ATTEMPTS times; it returns True exactly when a sensor query
\* of an attempt reports a target, with no key press after that query; it
\* returns False when the cap is exhausted or when the flag was cleared
\* during one of its waits, and then presses and queries no more.
C29_SelectTargetAttempts ==
    LET P == SelectPresses
        W == SelectWaits
        \* the queries of select_target that reported a target
        Y == {i \in 1..Len(log) :
                 log[i] = Ev("has_target", "yes") /\ \E p \in P : p < i}
    IN
    /\ Cardinality(P) <= SELECTION_MAX_ATTEMPTS
    /\ \A y \in Y :
          /\ y < Len(log) /\ log[y + 1] = Ev("select_target", "True")
          /\ \A p \in P : p < y
    /\ InLog(Ev("select_target", "True")) => Y # {}
    /\ InLog(Ev("select_target", "False"))
          => /\ \/ Cardinality(P) = SELECTION_MAX_ATTEMPTS
                \/ \E w \in W : w < Len(log) /\ log[w + 1] = Ev("stop", "request")
             /\ Y = {}
    /\ \A w \in W :
          (w + 1 < Len(log) /\ log[w + 1] = Ev("stop", "request"))
          => /\ log[w + 2] = Ev("select_target", "False")
             /\ \A p \in P : p < w
    /\ (Cardinality(P) = SELECTION_MAX_ATTEMPTS /\ Y = {}
          /\ pc \notin {"sel_wait1", "sel_wait2"})
          => InLog(Ev("select_target", "False"))

\* C29 witness: select_target has found a target on its last attempt, after
\* SELECTION_MAX_ATTEMPTS key presses.
C29_Witness ==
    /\ InLog(Ev("select_target", "True")) /\ running
    /\ Cardinality(SelectPresses) = SELECTION_MAX_ATTEMPTS
    /\ InLog(Ev("has_target", "no"))

\* C30: the state leaves Combat only on the step of a Combat cycle whose
\* has-target check reports no target, for Idle (or Loot) and with the stuck
\* counter at 0; a Combat cycle whose check reports a target stays in Combat.
C30_CombatLeftOnlyWithoutTarget ==
    /\ [][ (state = "combat" /\ state' # "combat")
              => /\ state' \in {"idle", "loot"}
                 /\ stuck_counter' = 0
                 /\ Len(log') >= 2 /\ log'[1] = Ev("cycle", "combat")
                 /\ log'[2] = Ev("has_target", "no") ]_vars
    /\ [](CombatWithTarget => state = "combat")
    /\ []((Len(log) >= 2 /\ log[1] = Ev("cycle", "combat")
             /\ log[2] = Ev("has_target", "no"))
          => (state = "idle" /\ stuck_counter = 0))

\* C30 witness: a Combat cycle whose check reported no target has put the
\* state back to Idle.
C30_Witness ==
    /\ Len(log) >= 2 /\ log[1] = Ev("cycle", "combat")
    /\ log[2] = Ev("has_target", "no")
    /\ state = "idle" /\ pc = "cycle_sleep" /\ running

\* C31 (as stated): no init_serial assigns a new connection while the one
\* held is still open.
C31_OpenedOnlyFromClosed == ~hw.replaced

\* C5: while the sensor reports no target at the cycle's check and at every
\* selection attempt, a cycle begun in Idle is in Idle at each of its steps
\* and at its end, the anti-stuck maneuver included.
C5_IdleStaysIdleWithoutTarget ==
    (Len(log) > 0 /\ log[1] = Ev("cycle", "idle")
        /\ ~InLog(Ev("has_target", "yes")))
    => state = "idle"

\* C5 witness: an Idle cycle in which every sensor reading was "no target" and
\* the anti-stuck maneuver ran has reached its closing wait, still Idle.
C5_Witness ==
    /\ pc = "cycle_sleep" /\ running /\ state = "idle"
    /\ log[1] = Ev("cycle", "idle")
    /\ ~InLog(Ev("has_target", "yes"))
    /\ InLog(Ev("has_target", "no")) /\ InLog(Ev("antistuck", "end"))
    /\ log[Len(log)] = Ev("wait", "loop_delay")

\* C6: the anti-stuck maneuver runs on exactly the cycle in which the number
\* of consecutive failed Idle cycles reaches MAX_STUCK_COUNT (never earlier,
\* never later), presses s, s, space in that order and nothing else, and
\* leaves stuck_counter at 0.
C6_AntiStuckOncePerThreshold ==
    /\ fails <= MAX_STUCK_COUNT
    /\ (pc = "unstuck") <=> (fails = MAX_STUCK_COUNT)
    /\ InLog(Ev("antistuck", "begin")) <=> (pc = "unstuck" \/ InLog(Ev("antistuck", "end")))
    /\ \A b \in 1..Len(log) : log[b] = Ev("antistuck", "begin") =>
          /\ IsPrefix(PressedAfter(b), UnstuckKeys)
          /\ InLog(Ev("antistuck", "end")) =>
                /\ PressedAfter(b) = <<"s", "s", "space">>
                /\ stuck_counter = 0

\* C6 witness: the tenth consecutive failed Idle cycle has run the maneuver
\* to its end.
C6_Witness ==
    /\ pc = "cycle_sleep" /\ InLog(Ev("antistuck", "end"))
    /\ stuck_counter = 0 /\ fails = 0
    /\ \E b \in 1..Len(log) :
          log[b] = Ev("antistuck", "begin") /\ PressedAfter(b) = UnstuckKeys

(***************************************************************************)
(* Claims on use_defense_skills (checked under SpecDefense).               *)
(***************************************************************************)
\* The skills pressed by the current use_defense_skills call, in order.
DefensePressed ==
    LET p == SelectSeq(log, LAMBDA e : e[1] = "defense")
    IN  [i \in 1..Len(p) |-> p[i][2]]

DefenseReturned ==
    /\ pc = "off" /\ Len(log) > 0
    /\ log[Len(log)] = Ev("return", "use_defense_skills")

\* C7: one call of use_defense_skills presses no skill twice and presses at
\* most max_skills_per_check (2) skills, whatever the priority list (a skill
\* listed twice with different thresholds included) and the health.
C7_DefenseNoRepeatWithinCap ==
    LET p == DefensePressed IN
    /\ Len(p) <= 2
    /\ \A i, j \in 1..Len(p) : i # j => p[i] # p[j]

\* C7 witness: with shield listed twice (thresholds 30 and 50) before heal and
\* health under both, the call has returned having pressed shield once, then
\* heal.
C7_Witness ==
    /\ DefenseReturned /\ running
    /\ cfg.prio = << <<"shield", 30>>, <<"shield", 50>>, <<"heal", 50>> >>
    /\ loc.health = 0
    /\ DefensePressed = <<"shield", "heal">>

\* C8: the skills a call presses are entries of the priority list taken in
\* list order, each configured (present with a non-empty key) and with the
\* health at or below the entry's threshold.  With health 0 and the list
\* [(shield,30),(heal,50)], both configured, a call that is not stopped
\* presses shield then heal when neither is on cooldown, and passes over
\* shield and still presses heal when shield is on cooldown.
C8_DefenseByThresholdInOrder ==
    LET p == DefensePressed IN
    /\ \E f \in [1..Len(p) -> 1..Len(cfg.prio)] :
          /\ \A i, j \in 1..Len(p) : i < j => f[i] < f[j]
          /\ \A i \in 1..Len(p) :
                /\ cfg.prio[f[i]][1] = p[i]
                /\ p[i] \in DOMAIN cfg.dkeys /\ cfg.dkeys[p[i]] # ""
                /\ loc.health <= cfg.prio[f[i]][2]
    /\ ( /\ DefenseReturned /\ running
         /\ cfg.prio = << <<"shield", 30>>, <<"heal", 50>> >>
         /\ {"shield", "heal"} \subseteq DOMAIN cfg.dkeys
         /\ cfg.dkeys["shield"] # "" /\ cfg.dkeys["heal"] # ""
         /\ loc.health = 0 )
       => p = (IF InLog(Ev("cooldown", "shield")) THEN << >> ELSE <<"shield">>)
              \o (IF InLog(Ev("cooldown", "heal")) THEN << >> ELSE <<"heal">>)

\* C8 witness: the later call of the scenario: shield is on cooldown from an
\* earlier call, the call passes over it and presses heal.
C8_Witness ==
    /\ DefenseReturned /\ running
    /\ cfg.prio = << <<"shield", 30>>, <<"heal", 50>> >>
    /\ loc.health = 0
    /\ "shield" \in DOMAIN skill_cooldowns /\ now < skill_cooldowns["shield"]
    /\ InLog(Ev("cooldown", "shield"))
    /\ DefensePressed = <<"heal">>

(***************************************************************************)
(* Claims on BotController (checked under SpecCtl).                        *)
(***************************************************************************)
WorkersExecuting == {w \in 1..Len(ctl.workers) : ctl.workers[w] \in Executing}

\* C1 (as stated): whatever the interleaving of start(), stop() and exit()
\* with the workers' steps, a join that timed out included, at most one
\* worker thread is executing _bot_loop; a start() launches its worker only
\* when every earlier worker has terminated.
C1_AtMostOneWorker ==
    /\ Cardinality(WorkersExecuting) <= 1
    /\ (ctl.last.op = "start" /\ ctl.last.ret) => ctl.last.others = {}

\* C2: start() called while running is true returns False, creates no thread
\* and leaves running, program_active and bot_thread as they were.
C2_StartWhileRunningIsNoOp ==
    (ctl.last.op = "start" /\ ctl.last.pre.running) =>
        /\ ctl.last.ret = FALSE
        /\ ctl.last.post = ctl.last.pre

\* C2 witness: start() has returned False on a controller that was running
\* with its worker alive, and the worker count is still one.
C2_Witness ==
    /\ ctl.last.op = "start" /\ ctl.last.pre.running /\ ~ctl.last.ret
    /\ ctl.last.alive /\ ctl.last.post.threads = 1 /\ ctl.last.post.running

\* C17 (as stated): exit() closes the serial channel only when no worker is
\* executing, BotController.exit after its join and Bot.exit alike.
C17_CloseAfterWorkerEnded ==
    /\ ctl.last.op = "exit" => ctl.last.others = {}
    /\ (Len(log) > 0 /\ log[Len(log)] = Ev("exit", "close")) => pc = "off"

\* C18: once program_active is false, in BotController and in Bot, no step
\* makes it true again.
C18_ProgramActiveMonotonic ==
    [][ /\ ~ctl.program_active => ~ctl.program_active'
        /\ ~active => ~active' ]_vars

\* C18 witness: both objects have exited and a start() was called on each
\* afterwards.
C18_Witness ==
    /\ ~ctl.program_active /\ ~active
    /\ ctl.last.op = "start" /\ ctl.last.ret
    /\ running /\ pc = "loop"

\* C19 (as stated): after BotController.exit() has returned, a start() launches
\* no worker.
C19_NoWorkerAfterExit ==
    (ctl.last.op = "start" /\ ~ctl.last.pre.program_active) => ~ctl.last.ret

\* C20 (as stated): a worker that caught an exception raised in a cycle goes on
\* to the while test of the next cycle and leaves the running flag as it was.
C20_WorkerSurvivesException ==
    [][ \A w \in 1..Len(ctl.workers) :
            (ctl.workers[w] = "except" /\ ctl.workers'[w] # "except")
            => (ctl.workers'[w] = "head" /\ ctl.running' = ctl.running) ]_vars

DefensePressStep(skill) ==
    /\ pc = "def_iter" /\ pc' = "def_wait"
    /\ IsPrefix(log, log')
    /\ \E i \in (Len(log) + 1)..Len(log') : log'[i] = Ev("defense", skill)

\* The step handles one entry of the priority list (it is not the return of
\* use_defense_skills, a stop request or the clock).
DefenseEntryStep ==
    /\ pc = "def_iter" /\ running /\ loc.di <= Len(cfg.prio)
    /\ loc.skills_used < max_skills_per_check
    /\ (pc' = "def_wait" \/ loc'.di # loc.di)

\* C32: a defensive skill with a configured cooldown is pressed only when it
\* has no table entry or the time has reached the entry; the press overwrites
\* the entry with the press time plus the cooldown and leaves the other
\* entries alone; and an entry that has passed does not keep a configured
\* skill, under its threshold and with a key not yet used, from being pressed.
C32_DefenseCooldown ==
    [][ /\ \A skill \in DOMAIN cfg.cds :
             DefensePressStep(skill) =>
               /\ skill \in DOMAIN skill_cooldowns => now >= skill_cooldowns[skill]
               /\ skill \in DOMAIN skill_cooldowns'
               /\ skill_cooldowns'[skill] = now + cfg.cds[skill]
               /\ \A k \in DOMAIN skill_cooldowns \ {skill} :
                      k \in DOMAIN skill_cooldowns'
                      /\ skill_cooldowns'[k] = skill_cooldowns[k]
        /\ DefenseEntryStep =>
             LET skill == cfg.prio[loc.di][1]
                 th    == cfg.prio[loc.di][2]
             IN  ( /\ skill \in DOMAIN cfg.dkeys /\ cfg.dkeys[skill] # ""
                   /\ loc.health <= th
                   /\ skill \in DOMAIN skill_cooldowns
                   /\ now >= skill_cooldowns[skill]
                   /\ cfg.dkeys[skill] \notin SeqRange(loc.used) )
                 => DefensePressStep(skill)
      ]_vars

\* Within one call the skill was passed over on cooldown at one entry and,
\* the time having reached its table entry, pressed at a later one, which
\* recorded the new earliest-reuse time.
C32_Witness ==
    /\ pc = "def_wait"
    /\ "shield" \in DOMAIN cfg.cds
    /\ \E i, j \in 1..Len(log) :
          i < j /\ log[i] = Ev("cooldown", "shield")
                /\ log[j] = Ev("defense", "shield")
    /\ "shield" \in DOMAIN skill_cooldowns
    /\ skill_cooldowns["shield"] = now + cfg.cds["shield"]

\* What Roaming waits for holds: the loop runs and the frame of the last
\* cycle showed monsters and HP and MP not below their thresholds.
RoamingResolved ==
    /\ sm.running /\ sm.cyc.frame /\ sm.cyc.monsters
    /\ sm.cyc.hp >= hp_threshold /\ sm.cyc.mp >= mp_threshold

\* C33 (as stated): from Roaming, if monsters stay detectable and HP and MP
\* stay at or above their thresholds, the state eventually becomes Idle or
\* Combat.
C33_RoamingReturns ==
    (sm.state = "roaming") ~> (sm.state \in {"idle", "combat"} \/ ~RoamingResolved)

\* C34: after an update() that captured a frame, the state is EmergencyHeal
\* when the HP read was below hp_threshold, whatever the MP and the state
\* before; it is Rest when the HP was not below and the MP was below
\* mp_threshold; and the per-state logic ran exactly when neither was below.
C34_ThresholdsFirst ==
    sm.cyc.frame =>
        /\ sm.cyc.hp < hp_threshold => sm.state = "emergency_heal"
        /\ (sm.cyc.hp >= hp_threshold /\ sm.cyc.mp < mp_threshold)
              => sm.state = "rest"
        /\ sm.cyc.logic <=>
              (sm.cyc.hp >= hp_threshold /\ sm.cyc.mp >= mp_threshold)

\* A cycle that started in Combat read both HP and MP below their thresholds
\* and ended in EmergencyHeal.
C34_Witness ==
    /\ sm.cyc.frame /\ sm.cyc.start = "combat"
    /\ sm.cyc.hp < hp_threshold /\ sm.cyc.mp < mp_threshold
    /\ sm.state = "emergency_heal" /\ ~sm.cyc.logic

IssuedInCycle(key) == \E i \in 1..Len(sm.cyc.keys) : sm.cyc.keys[i] = key

\* C35: a cycle whose HP or MP read was below its threshold issued no input
\* command; the heal key was issued only by a cycle that started in
\* EmergencyHeal and read both at or above their thresholds, the rest key
\* only by such a cycle that started in Rest.
C35_NoInputBelowThreshold ==
    /\ (sm.cyc.frame /\ (sm.cyc.hp < hp_threshold \/ sm.cyc.mp < mp_threshold))
          => sm.cyc.keys = << >>
    /\ IssuedInCycle("H") =>
          /\ sm.cyc.start = "emergency_heal" /\ sm.cyc.frame
          /\ sm.cyc.hp >= hp_threshold /\ sm.cyc.mp >= mp_threshold
    /\ IssuedInCycle("R") =>
          /\ sm.cyc.start = "rest" /\ sm.cyc.frame
          /\ sm.cyc.hp >= hp_threshold /\ sm.cyc.mp >= mp_threshold

\* A cycle that started in EmergencyHeal with HP back at the threshold
\* pressed the heal key and stayed in EmergencyHeal.
C35_Witness ==
    /\ sm.cyc.start = "emergency_heal" /\ sm.cyc.frame
    /\ sm.cyc.hp = hp_threshold /\ sm.cyc.keys = <<"H">>
    /\ sm.state = "emergency_heal"

RECURSIVE SumMoves(_, _)
SumMoves(w, axis) ==
    IF w = << >> THEN 0 ELSE w[1][2][axis] + SumMoves(Tail(w), axis)

\* C36: a send_mouse_input(dx, dy) call (running true) whose sends all
\* returned True made twenty of them, wrote twenty MOUSE_MOVE commands whose
\* components sum to dx and to dy, and returned True; a call in which a send
\* returned False made no send after it and returned False.
C36_MouseMoveSteps ==
    (last.op = "send_mouse_input" /\ last.running) =>
        /\ \A i \in 1..(Len(last.sends) - 1) : last.sends[i]
        /\ Len(last.sends) <= 20
        /\ \A i \in 1..Len(last.written) : last.written[i][1] = "MOUSE_MOVE"
        /\ (\A i \in 1..Len(last.sends) : last.sends[i]) =>
              /\ last.ok /\ Len(last.sends) = 20 /\ Len(last.written) = 20
              /\ SumMoves(last.written, 1) = last.dx
              /\ SumMoves(last.written, 2) = last.dy
        /\ (\E i \in 1..Len(last.sends) : ~last.sends[i]) => ~last.ok

\* A complete move to (10, 5) with the control points off the straight line.
C36_Witness ==
    /\ last.op = "send_mouse_input" /\ last.running /\ last.ok
    /\ last.dx = 10 /\ last.dy = 5 /\ last.c = <<5, 0 - 5, 0 - 5, 5>>
    /\ Len(last.written) = 20

\* C37 (as stated): the list returned by randomize_skill_order is a
\* permutation of its argument in which every skill is at most one position
\* from its index in the argument; the argument is left as it was; a list of
\* length 0 or 1 comes back unchanged.
C37_ShuffleKeepsNeighbourhood ==
    last.op = "randomize_skill_order" =>
        /\ Len(last.out) = Len(last.skills)
        /\ \A i \in 1..Len(last.skills) :
              \E j \in 1..Len(last.out) :
                  /\ last.out[j] = last.skills[i]
                  /\ j - i \in {0 - 1, 0, 1}
        /\ last.arg = last.skills
        /\ Len(last.skills) <= 1 => last.out = last.skills

\* C38: for min <= max, random_delay under "uniform" and under "gaussian"
\* returns a value in [min, max] for every draw; under any other distribution
\* name it raises and returns nothing.
C38_RandomDelayInBounds ==
    last.op = "random_delay" =>
        /\ (last.distribution \in {"uniform", "gaussian"} /\ last.min <= last.max)
              => /\ ~last.raised
                 /\ DelayScale * last.min <= last.value
                 /\ last.value <= DelayScale * last.max
        /\ last.distribution \notin {"uniform", "gaussian"} => last.raised

\* A gaussian draw four deviations above the mean, brought back to max.
C38_Witness ==
    /\ last.op = "random_delay" /\ last.distribution = "gaussian"
    /\ last.min = 1 /\ last.max = 4 /\ last.draw = 4
    /\ last.value = DelayScale * last.max

\* The thread is between two cycles of bot_loop: at the test of the while,
\* at the sleep that ends a cycle, or out of the loop.
CycleBoundary == pc \in {"loop", "cycle_sleep", "off"}

\* C39: between two cycles of bot_loop the stuck counter is at least 0 and
\* below MAX_STUCK_COUNT, and it is 0 when the state is Combat.
C39_StuckCounterRange ==
    CycleBoundary =>
        /\ 0 <= stuck_counter /\ stuck_counter < MAX_STUCK_COUNT
        /\ state = "combat" => stuck_counter = 0

\* The ninth consecutive failed Idle cycle has ended: the counter is one
\* below the threshold.
C39_Witness ==
    /\ pc = "cycle_sleep" /\ state = "idle" /\ running
    /\ stuck_counter = MAX_STUCK_COUNT - 1

\* C40 (as stated): once stop() has been called while bot_loop runs, then
\* unless a start() follows (running is true again), the thread leaves
\* bot_loop and the serial link is not open when it has.
C40_StopLeadsToExit ==
    (pc # "off" /\ ~running) ~> (running \/ (pc = "off" /\ hw.conn # "open"))
====
